---- MODULE Spec2Model ----
(***************************************************************************)
(* A model of LvArray's ragged container (ArrayOfArraysView.hpp) and of    *)
(* the sorted-array routines (sortedArrayManipulation.hpp).                *)
(*                                                                         *)
(* Buffers are modelled as functions over 0..capacity-1, so that indices   *)
(* are those of the C++ code.  A slot of the value buffer that holds no    *)
(* constructed object (never constructed, destroyed, or moved from by an   *)
(* "uninitialized" move) holds Uninit.                                     *)
(***************************************************************************)
EXTENDS Integers, Sequences, FiniteSets, TLC

\* ------------------------------------------------------------------ bounds
MaxArrays == 2
MaxOffset == 2
MaxVal == 2
MaxSrcArrays == 2
MaxSrcOffset == 2
MaxBatch == 2
NumThreads == 2
MaxSortedVal == 6
MaxSortedSize == 4
MaxSortedBatch == 4
CacheBound == 1
WriterCapacity == 2
CharBits == 2
IntBits == 3
LongBits == 4
MaxSortInputLen == 4
MaxSortInputVal == 3
SortThreshold == 2
MaxUnsortedVal == 4
MaxUnsortedBatch == 3
LocalBound == 2

\* The marker of a slot that holds no constructed value.
Uninit == 0

Vals == 1..MaxVal

\* The value ranges handed to appendToArray and insertIntoArray.
Batches == {[k \in 1..n |-> ((k + s) % MaxVal) + 1] : n \in 0..MaxBatch, s \in 0..1}

VARIABLES
    m_numArrays,   \* ArrayOfArraysView::m_numArrays
    m_offsets,     \* the constructed entries of ArrayOfArraysView::m_offsets
    m_sizes,       \* the constructed entries of ArrayOfArraysView::m_sizes
    m_values,      \* ArrayOfArraysView::m_values, one cell per slot of capacity
    fatal,         \* TRUE once an LVARRAY_ERROR_IF has fired: the program is gone
    lastOp,        \* history: the last call of the run
    threads,       \* the threads inside emplaceBackAtomic: where each one is
    sa,            \* a call of a sortedArrayManipulation routine
    spaces         \* the memory space each buffer is in, and where it was touched

aoaVars == <<m_numArrays, m_offsets, m_sizes, m_values, fatal, lastOp>>

vars == <<m_numArrays, m_offsets, m_sizes, m_values, fatal, lastOp, threads, sa, spaces>>

\* ----------------------------------------------------------- 0-based arrays
Cap(buf) == Cardinality(DOMAIN buf)

Empty0 == [k \in {} |-> Uninit]

\* A write through a raw pointer; a write past the allocation is not kept.
Put(buf, k, v) == IF k \in DOMAIN buf THEN [buf EXCEPT ![k] = v] ELSE buf

\* The first n cells of a (from index p) as a sequence.
Run(buf, p, n) == [k \in 1..n |-> buf[p + k - 1]]

\* ------------------------------------------------------------ memory spaces
\* MemorySpace; the GPU space exists in a CUDA build only.
MemorySpaces == {"CPU", "GPU"}

\* A buffer as it is allocated: in the host's space, its data touched there.
bufAllocated == [space |-> "CPU", touched |-> "CPU"]

\* buffer.move( space, touch ): the buffer is then in space and, with touch, its
\* data counts as modified there.
bufMove(b, space, touch) == [space |-> space, touched |-> IF touch THEN space ELSE b.touched]

\* The three buffers as allocated, in a build with USE_CUDA as given; log: the
\* calls of buffer.move made by the last move, in order.
Allocated(cuda) ==
    [USE_CUDA |-> cuda, m_values |-> bufAllocated, m_sizes |-> bufAllocated,
     m_offsets |-> bufAllocated, log |-> <<>>]

\* ------------------------------------------------------ bufferManipulation
\* reserve( buf, size, newCapacity ): reallocate when the capacity is too small,
\* moving the first size values into the new allocation.
bufReserve(buf, size, newCapacity) ==
    IF newCapacity > Cap(buf)
    THEN [k \in 0..(newCapacity - 1) |->
            IF k < size /\ k \in DOMAIN buf THEN buf[k] ELSE Uninit]
    ELSE buf

\* reserve( buf, size, newCapacity ) called with size larger than the capacity
\* and reallocating: the entries moved from past the allocation hold g.
bufReserveBeyond(buf, size, newCapacity, g) ==
    [k \in 0..(newCapacity - 1) |->
        IF k < size THEN (IF k \in DOMAIN buf THEN buf[k] ELSE g) ELSE Uninit]

\* dynamicReserve( buf, size, newCapacity ): as reserve.
bufDynamicReserve(buf, size, newCapacity) == bufReserve(buf, size, newCapacity)

\* resize( buf, size, newSize, defaultValue ): the entries [size, newSize) are
\* constructed from defaultValue, the entries [newSize, size) are destroyed.
bufResize(buf, size, newSize, defaultValue) ==
    [k \in 0..(newSize - 1) |-> IF k < size THEN buf[k] ELSE defaultValue]

\* copyInto( dst, dstSize, src, srcSize ): dst becomes the first srcSize of src.
bufCopyInto(dst, dstSize, src, srcSize) == [k \in 0..(srcSize - 1) |-> src[k]]

\* ------------------------------------------------------- arrayManipulation
isPositive(i) == i >= 0

\* destroy( ptr, n )
amDestroy(buf, ptr, n) ==
    [k \in DOMAIN buf |-> IF ptr <= k /\ k < ptr + n THEN Uninit ELSE buf[k]]

\* uninitializedShiftDown( ptr, size, n ): move ptr[0..size) to ptr[-n..size-n),
\* the slots moved from are left destroyed.
amUninitializedShiftDown(buf, ptr, size, n) ==
    [k \in DOMAIN buf |->
        IF ptr - n <= k /\ k < ptr - n + size THEN buf[k + n]
        ELSE IF ptr <= k /\ k < ptr + size THEN Uninit
        ELSE buf[k]]

\* uninitializedShiftUp( ptr, size, n ): move ptr[0..size) to ptr[n..size+n).
amUninitializedShiftUp(buf, ptr, size, n) ==
    [k \in DOMAIN buf |->
        IF ptr + n <= k /\ k < ptr + n + size THEN buf[k - n]
        ELSE IF ptr <= k /\ k < ptr + size THEN Uninit
        ELSE buf[k]]

\* emplaceBack( ptr, size, value ): construct value at ptr[size].
amEmplaceBack(buf, ptr, size, v) == Put(buf, ptr + size, v)

\* append( ptr, size, first, last ): construct the values at ptr[size..size+n).
amAppend(buf, ptr, size, vs) ==
    [k \in DOMAIN buf |->
        IF ptr + size <= k /\ k < ptr + size + Len(vs)
        THEN vs[k - ptr - size + 1] ELSE buf[k]]

\* insert( ptr, size, index, first, n ): shift ptr[index..size) up by n and
\* construct the n values at ptr[index..index+n).
amInsert(buf, ptr, size, index, vs) ==
    [k \in DOMAIN buf |->
        IF ptr + index <= k /\ k < ptr + index + Len(vs) THEN vs[k - ptr - index + 1]
        ELSE IF ptr + index + Len(vs) <= k /\ k < ptr + size + Len(vs) THEN buf[k - Len(vs)]
        ELSE buf[k]]

\* emplace( ptr, size, index, value ): insert of one value.
amEmplace(buf, ptr, size, index, v) == amInsert(buf, ptr, size, index, <<v>>)

\* erase( ptr, size, index, n ): shift ptr[index+n..size) down by n and destroy
\* the n slots at the end.
amErase(buf, ptr, size, index, n) ==
    [k \in DOMAIN buf |->
        IF ptr + index <= k /\ k < ptr + size - n THEN buf[k + n]
        ELSE IF ptr + size - n <= k /\ k < ptr + size THEN Uninit
        ELSE buf[k]]

\* erase( ptr, size, index, n ) for any n: shift ptr[index+n..size) down by n
\* and destroy the n slots at the end, as for the counts it is defined on; a
\* slot that would receive a value from outside the allocation is left without
\* a value.
amEraseAnyCount(buf, ptr, size, index, n) ==
    [k \in DOMAIN buf |->
        IF ptr + index <= k /\ k < ptr + size - n
        THEN (IF k + n \in DOMAIN buf THEN buf[k + n] ELSE Uninit)
        ELSE IF ptr + size - n <= k /\ k < ptr + size THEN Uninit
        ELSE buf[k]]

\* ------------------------------------------------ sortedArrayManipulation
\* The arrays are buffers indexed from 0, as in the code; values[0..nVals) is
\* the batch.  A routine's outcome is the record of the buffer it leaves, the
\* size the owner of the array then has, the value returned and the calls made
\* on the callbacks, in order.
SortedVals == 1..MaxSortedVal

\* The sequence s as a buffer indexed from 0.
ToBuf(s) == [k \in 0..(Len(s) - 1) |-> s[k + 1]]

\* The buffer buf as a sequence.
ToSeq0(buf) == [k \in 1..Cardinality(DOMAIN buf) |-> buf[k - 1]]

\* ptr + n: the buffer seen from its n-th entry.
PtrAdd(buf, n) == [k \in 0..(Cap(buf) - n - 1) |-> buf[k + n]]

\* One call on the callbacks object.
CB(name, args) == [cb |-> name, args |-> args]

\* callBacks.incrementSize( nToAdd ): the array, its size values kept, with room
\* for nToAdd more.
incrementSize(ptr, size, nToAdd) ==
    [k \in 0..(size + nToAdd - 1) |-> IF k < size THEN ptr[k] ELSE Uninit]

\* arrayManipulation::shiftUp( ptr, size, index, n ): move ptr[index..size) up
\* by n; the slots moved out of are left destroyed.
amShiftUp(buf, size, index, n) ==
    [k \in DOMAIN buf |->
        IF index + n <= k /\ k < size + n THEN buf[k - n]
        ELSE IF index <= k /\ k < size /\ k < index + n THEN Uninit
        ELSE buf[k]]

\* arrayManipulation::shiftDown( ptr, size, index, n ): move ptr[index..size)
\* down by n; the n entries at the end are not destroyed.
amShiftDown(buf, size, index, n) ==
    [k \in DOMAIN buf |->
        IF index - n <= k /\ k < size - n THEN buf[k + n] ELSE buf[k]]

\* less< T >
comp(a, b) == a < b

RECURSIVE findLoop_UpperBound(_, _, _, _)
findLoop_UpperBound(ptr, lower, upper, value) ==
    IF lower = upper THEN lower
    ELSE LET guess == (lower + upper) \div 2 IN
         IF ~comp(value, ptr[guess])
         THEN findLoop_UpperBound(ptr, guess + 1, upper, value)
         ELSE findLoop_UpperBound(ptr, lower, guess, value)

\* The while loop of find.
RECURSIVE findLoop(_, _, _, _)
findLoop(ptr, lower, upper, value) ==
    IF lower = upper THEN lower
    ELSE LET guess == (lower + upper) \div 2 IN
         IF comp(ptr[guess], value)
         THEN findLoop(ptr, guess + 1, upper, value)
         ELSE findLoop(ptr, lower, guess, value)

\* find( ptr, size, value )
find(ptr, size, value) == findLoop(ptr, 0, size, value)

insertPosition_LastSlot(ptr, size, value) ==
    IF size = 0 \/ value < ptr[0] THEN 0
    ELSE IF ptr[size - 1] < value THEN size - 1
    ELSE find(ptr, size, value)

\* The position the single-value insert chooses.
insertPosition(ptr, size, value) ==
    IF size = 0 \/ value < ptr[0] THEN 0
    ELSE IF ptr[size - 1] < value THEN size
    ELSE find(ptr, size, value)

insert_NoPresenceTest(ptr, size, value) ==
    LET insertPos == insertPosition(ptr, size, value)
        newPtr == incrementSize(ptr, size, 1)
    IN  [ptr |-> amInsert(newPtr, 0, size, insertPos, <<value>>),
         size |-> size + 1,
         ret |-> TRUE,
         log |-> <<CB("incrementSize", <<1>>), CB("insert", <<insertPos>>)>>]

insert_NoIncrementWhenPresent(ptr, size, value) ==
    LET insertPos == insertPosition(ptr, size, value) IN
    IF insertPos # size /\ ptr[insertPos] = value
    THEN [ptr |-> ptr,
          size |-> size,
          ret |-> FALSE,
          log |-> <<>>]
    ELSE LET newPtr == incrementSize(ptr, size, 1) IN
         [ptr |-> amInsert(newPtr, 0, size, insertPos, <<value>>),
          size |-> size + 1,
          ret |-> TRUE,
          log |-> <<CB("incrementSize", <<1>>), CB("insert", <<insertPos>>)>>]

\* insert( ptr, size, value, callBacks )
insert(ptr, size, value) ==
    LET insertPos == insertPosition(ptr, size, value) IN
    IF insertPos # size /\ ptr[insertPos] = value
    THEN [ptr |-> incrementSize(ptr, size, 0),
          size |-> size,
          ret |-> FALSE,
          log |-> <<CB("incrementSize", <<0>>)>>]
    ELSE LET newPtr == incrementSize(ptr, size, 1) IN
         [ptr |-> amInsert(newPtr, 0, size, insertPos, <<value>>),
          size |-> size + 1,
          ret |-> TRUE,
          log |-> <<CB("incrementSize", <<1>>), CB("insert", <<insertPos>>)>>]

RECURSIVE removeSortedFirst_LargestTested(_, _, _, _, _)
removeSortedFirst_LargestTested(ptr, size, values, nVals, i) ==
    IF i >= nVals THEN [early |-> FALSE, firstValuePos |-> nVals, curPos |-> size]
    ELSE LET curPos == find(ptr, size, values[i]) IN
         IF curPos = size \/ find(ptr, size, values[nVals - 1]) = size
         THEN [early |-> TRUE, firstValuePos |-> nVals, curPos |-> size]
         ELSE IF ptr[curPos] = values[i]
              THEN [early |-> FALSE, firstValuePos |-> i, curPos |-> curPos]
              ELSE removeSortedFirst_LargestTested(ptr, size, values, nVals, i + 1)

\* removeSorted's first loop, from values[i]: the position of the first value
\* found in the array and where it is; early when the routine returns 0 there.
RECURSIVE removeSortedFirst(_, _, _, _, _)
removeSortedFirst(ptr, size, values, nVals, i) ==
    IF i >= nVals THEN [early |-> FALSE, firstValuePos |-> nVals, curPos |-> size]
    ELSE LET curPos == find(ptr, size, values[i]) IN
         IF curPos = size THEN [early |-> TRUE, firstValuePos |-> nVals, curPos |-> size]
         ELSE IF ptr[curPos] = values[i]
              THEN [early |-> FALSE, firstValuePos |-> i, curPos |-> curPos]
              ELSE removeSortedFirst(ptr, size, values, nVals, i + 1)

\* removeSorted's search for the next value to remove, from values[j]:
\* <<nextValuePos, nextPos>>.
RECURSIVE removeSortedNext(_, _, _, _, _, _)
removeSortedNext(ptr, size, values, nVals, curPos, j) ==
    IF j >= nVals THEN <<nVals, size>>
    ELSE IF values[j] = values[j - 1]
         THEN removeSortedNext(ptr, size, values, nVals, curPos, j + 1)
         ELSE LET pos == find(PtrAdd(ptr, curPos), size - curPos, values[j]) + curPos IN
              IF pos = size THEN <<nVals, size>>
              ELSE IF ptr[pos] = values[j] THEN <<j, pos>>
                   ELSE removeSortedNext(ptr, size, values, nVals, curPos, j + 1)

RECURSIVE removeSortedLoop_ShiftByOne(_, _, _, _)
removeSortedLoop_ShiftByOne(st, size, values, nVals) ==
    IF st.curValuePos >= nVals THEN st
    ELSE LET next == removeSortedNext(st.ptr, size, values, nVals, st.curPos,
                                      st.curValuePos + 1)
             nRemoved == st.nRemoved + 1
             st2 == [ptr |-> amShiftDown(st.ptr, next[2], st.curPos + 1, 1),
                     curValuePos |-> next[1],
                     curPos |-> next[2],
                     nRemoved |-> nRemoved,
                     log |-> Append(st.log, CB("remove", <<nRemoved, st.curPos, next[2]>>))]
         IN  IF next[2] = size THEN st2
             ELSE removeSortedLoop_ShiftByOne(st2, size, values, nVals)

RECURSIVE removeSortedLoop_CountAfterCallback(_, _, _, _)
removeSortedLoop_CountAfterCallback(st, size, values, nVals) ==
    IF st.curValuePos >= nVals THEN st
    ELSE LET next == removeSortedNext(st.ptr, size, values, nVals, st.curPos,
                                      st.curValuePos + 1)
             nRemoved == st.nRemoved + 1
             st2 == [ptr |-> amShiftDown(st.ptr, next[2], st.curPos + 1, nRemoved),
                     curValuePos |-> next[1],
                     curPos |-> next[2],
                     nRemoved |-> nRemoved,
                     log |-> Append(st.log, CB("remove", <<st.nRemoved, st.curPos, next[2]>>))]
         IN  IF next[2] = size THEN st2
             ELSE removeSortedLoop_CountAfterCallback(st2, size, values, nVals)

\* removeSorted's loop over the values to remove.
RECURSIVE removeSortedLoop(_, _, _, _)
removeSortedLoop(st, size, values, nVals) ==
    IF st.curValuePos >= nVals THEN st
    ELSE LET next == removeSortedNext(st.ptr, size, values, nVals, st.curPos,
                                      st.curValuePos + 1)
             nRemoved == st.nRemoved + 1
             st2 == [ptr |-> amShiftDown(st.ptr, next[2], st.curPos + 1, nRemoved),
                     curValuePos |-> next[1],
                     curPos |-> next[2],
                     nRemoved |-> nRemoved,
                     log |-> Append(st.log, CB("remove", <<nRemoved, st.curPos, next[2]>>))]
         IN  IF next[2] = size THEN st2
             ELSE removeSortedLoop(st2, size, values, nVals)

\* removeSorted( ptr, size, values, nVals, callBacks ); the caller keeps the size.
removeSorted(ptr, size, values, nVals) ==
    LET none == [ptr |-> ptr, size |-> size, ret |-> 0, log |-> <<>>] IN
    IF nVals = 0 THEN none
    ELSE LET first == removeSortedFirst(ptr, size, values, nVals, 0) IN
         IF first.early \/ first.firstValuePos = nVals THEN none
         ELSE LET st == removeSortedLoop(
                            [ptr |-> ptr, curValuePos |-> first.firstValuePos,
                             curPos |-> first.curPos, nRemoved |-> 0, log |-> <<>>],
                            size, values, nVals)
              IN  [ptr |-> amDestroy(st.ptr, size - st.nRemoved, st.nRemoved),
                   size |-> size,
                   ret |-> st.nRemoved,
                   log |-> st.log]

\* The fixed length of insertSorted's valuePositions and insertPositions.
MAX_PRE_CALCULATED == 32

\* insertSorted into an empty array: the number of unique values from values[i].
RECURSIVE countUnique(_, _, _)
countUnique(values, nVals, i) ==
    IF i >= nVals THEN 0
    ELSE (IF values[i] # values[i - 1] THEN 1 ELSE 0) + countUnique(values, nVals, i + 1)

\* insertSorted into an empty array: the loop that writes the unique values
\* from values[i] on.
RECURSIVE insertIntoEmpty(_, _, _, _)
insertIntoEmpty(st, values, nVals, i) ==
    IF i >= nVals THEN st
    ELSE IF values[i] # values[i - 1]
         THEN insertIntoEmpty(
                  [ptr |-> Put(st.ptr, st.curInsertPos, values[i]),
                   curInsertPos |-> st.curInsertPos + 1,
                   log |-> Append(st.log, CB("set", <<st.curInsertPos, i>>))],
                  values, nVals, i + 1)
         ELSE insertIntoEmpty(st, values, nVals, i + 1)

\* insertSorted's loop over the values in reverse, from values[i] down: the
\* number to insert and the positions kept for the first maxPre of them.
RECURSIVE insertSortedCount(_, _, _, _, _, _)
insertSortedCount(st, ptr, size, values, i, maxPre) ==
    IF i < 0 THEN st
    ELSE IF i # 0 /\ values[i] = values[i - 1]
         THEN insertSortedCount(st, ptr, size, values, i - 1, maxPre)
         ELSE LET curPos == find(ptr, st.curPos, values[i]) IN
              IF curPos = size \/ ptr[curPos] # values[i]
              THEN insertSortedCount(
                       [curPos |-> curPos,
                        nToInsert |-> st.nToInsert + 1,
                        valuePositions |->
                            IF st.nToInsert < maxPre
                            THEN (st.nToInsert :> i) @@ st.valuePositions
                            ELSE st.valuePositions,
                        insertPositions |->
                            IF st.nToInsert < maxPre
                            THEN (st.nToInsert :> curPos) @@ st.insertPositions
                            ELSE st.insertPositions],
                       ptr, size, values, i - 1, maxPre)
              ELSE insertSortedCount([st EXCEPT !.curPos = curPos],
                                     ptr, size, values, i - 1, maxPre)

RECURSIVE insertSortedPlace_PrevPosKept(_, _, _, _, _, _, _)
insertSortedPlace_PrevPosKept(st, values, nToInsert, i, nPreCalculated, valuePositions, insertPositions) ==
    IF i >= nPreCalculated THEN st
    ELSE LET curValuePos == valuePositions[i]
             shifted == amShiftUp(st.ptr, st.prevInsertPos, insertPositions[i], nToInsert - i)
         IN  insertSortedPlace_PrevPosKept(
                 [ptr |-> Put(shifted, insertPositions[i] + nToInsert - i - 1,
                              values[curValuePos]),
                  prevInsertPos |-> st.prevInsertPos,
                  log |-> Append(st.log, CB("insert", <<nToInsert - i, curValuePos,
                                                        insertPositions[i], st.prevInsertPos>>))],
                 values, nToInsert, i + 1, nPreCalculated, valuePositions, insertPositions)

\* insertSorted's loop over the positions kept, from the i-th.
RECURSIVE insertSortedPlace(_, _, _, _, _, _, _)
insertSortedPlace(st, values, nToInsert, i, nPreCalculated, valuePositions, insertPositions) ==
    IF i >= nPreCalculated THEN st
    ELSE LET curValuePos == valuePositions[i]
             shifted == amShiftUp(st.ptr, st.prevInsertPos, insertPositions[i], nToInsert - i)
         IN  insertSortedPlace(
                 [ptr |-> Put(shifted, insertPositions[i] + nToInsert - i - 1,
                              values[curValuePos]),
                  prevInsertPos |-> insertPositions[i],
                  log |-> Append(st.log, CB("insert", <<nToInsert - i, curValuePos,
                                                        insertPositions[i], st.prevInsertPos>>))],
                 values, nToInsert, i + 1, nPreCalculated, valuePositions, insertPositions)

RECURSIVE insertSortedRest_NoPresenceTest(_, _, _, _)
insertSortedRest_NoPresenceTest(st, values, nToInsert, i) ==
    IF i < 0 THEN st
    ELSE IF values[i] = values[i + 1]
    THEN insertSortedRest_NoPresenceTest(st, values, nToInsert, i - 1)
    ELSE LET pos == find(st.ptr, st.prevInsertPos, values[i])
             shifted == amShiftUp(st.ptr, st.prevInsertPos, pos, nToInsert - st.nInserted)
             st2 == [ptr |-> Put(shifted, pos + nToInsert - st.nInserted - 1, values[i]),
                     prevInsertPos |-> pos,
                     nInserted |-> st.nInserted + 1,
                     log |-> Append(st.log, CB("insert", <<nToInsert - st.nInserted, i,
                                                           pos, st.prevInsertPos>>))]
         IN  IF st2.nInserted = nToInsert THEN st2
             ELSE insertSortedRest_NoPresenceTest(st2, values, nToInsert, i - 1)

\* insertSorted's loop over the values whose positions were not kept, from
\* values[i] down.
RECURSIVE insertSortedRest(_, _, _, _)
insertSortedRest(st, values, nToInsert, i) ==
    IF i < 0 THEN st
    ELSE IF values[i] = values[i + 1] THEN insertSortedRest(st, values, nToInsert, i - 1)
    ELSE LET pos == find(st.ptr, st.prevInsertPos, values[i]) IN
         IF pos # st.prevInsertPos /\ st.ptr[pos] = values[i]
         THEN insertSortedRest(st, values, nToInsert, i - 1)
         ELSE LET shifted == amShiftUp(st.ptr, st.prevInsertPos, pos, nToInsert - st.nInserted)
                  st2 == [ptr |-> Put(shifted, pos + nToInsert - st.nInserted - 1, values[i]),
                          prevInsertPos |-> pos,
                          nInserted |-> st.nInserted + 1,
                          log |-> Append(st.log, CB("insert", <<nToInsert - st.nInserted, i,
                                                                pos, st.prevInsertPos>>))]
              IN  IF st2.nInserted = nToInsert THEN st2
                  ELSE insertSortedRest(st2, values, nToInsert, i - 1)

\* insertSorted( ptr, size, values, nVals, callBacks ) with valuePositions and
\* insertPositions of length maxPre.
insertSorted(ptr, size, values, nVals, maxPre) ==
    IF nVals = 0
    THEN [ptr |-> incrementSize(ptr, size, 0), size |-> size, ret |-> 0,
          log |-> <<CB("incrementSize", <<0>>)>>]
    ELSE IF size = 0
    THEN LET nToInsert == 1 + countUnique(values, nVals, 1)
             newPtr == incrementSize(ptr, size, nToInsert)
             st == insertIntoEmpty(
                       [ptr |-> Put(newPtr, 0, values[0]),
                        curInsertPos |-> 1,
                        log |-> <<CB("incrementSize", <<nToInsert>>), CB("set", <<0, 0>>)>>],
                       values, nVals, 1)
         IN  [ptr |-> st.ptr, size |-> size + nToInsert, ret |-> nToInsert, log |-> st.log]
    ELSE LET cnt == insertSortedCount(
                        [curPos |-> size, nToInsert |-> 0,
                         valuePositions |-> Empty0, insertPositions |-> Empty0],
                        ptr, size, values, nVals - 1, maxPre)
             nToInsert == cnt.nToInsert
             newPtr == incrementSize(ptr, size, nToInsert)
             nPreCalculated == IF nToInsert < maxPre THEN nToInsert ELSE maxPre
             placed == insertSortedPlace(
                           [ptr |-> newPtr, prevInsertPos |-> size,
                            log |-> <<CB("incrementSize", <<nToInsert>>)>>],
                           values, nToInsert, 0, nPreCalculated,
                           cnt.valuePositions, cnt.insertPositions)
         IN  IF nToInsert = 0
             THEN [ptr |-> newPtr, size |-> size, ret |-> 0,
                   log |-> <<CB("incrementSize", <<0>>)>>]
             ELSE IF nToInsert <= maxPre
             THEN [ptr |-> placed.ptr, size |-> size + nToInsert, ret |-> nToInsert,
                   log |-> placed.log]
             ELSE LET rest == insertSortedRest(
                                  [ptr |-> placed.ptr, prevInsertPos |-> placed.prevInsertPos,
                                   nInserted |-> maxPre, log |-> placed.log],
                                  values, nToInsert, cnt.valuePositions[maxPre - 1] - 1)
                  IN  [ptr |-> rest.ptr, size |-> size + nToInsert, ret |-> nToInsert,
                       log |-> rest.log]

\* ----------------------------------------------------------------- makeSorted
\* The comparison objects handed to makeSorted: less< T > and greater< T >.
Comparators == {"less", "greater"}

\* comp( lhs, rhs )
compare(c, lhs, rhs) == IF c = "less" THEN lhs < rhs ELSE lhs > rhs

\* internal::INTROSORT_THRESHOLD: the length above which a range is partitioned.
INTROSORT_THRESHOLD == SortThreshold

\* The largest k with 2^k <= n, for n >= 1.
RECURSIVE floorLog2(_)
floorLog2(n) == IF n <= 1 THEN 0 ELSE 1 + floorLog2(n \div 2)

\* The number of partitions a range may go through before the heapsort
\* fallback takes it.
depthLimit(n) == 2 * floorLog2(n)

\* The median of three values under the comparison c.
medianOfThree(c, x, y, z) ==
    IF compare(c, x, y)
    THEN (IF compare(c, y, z) THEN y ELSE IF compare(c, x, z) THEN z ELSE x)
    ELSE (IF compare(c, x, z) THEN x ELSE IF compare(c, y, z) THEN z ELSE y)

\* The cells [from, from + Len(s)) of buf overwritten with s.
PutRun(buf, from, s) ==
    [k \in DOMAIN buf |-> IF from <= k /\ k < from + Len(s) THEN s[k - from + 1] ELSE buf[k]]

\* One partition of the range [from, to) around the median of its first,
\* middle and last value: the values that come before the pivot are moved in
\* front of the others; cut is where the others start.
partitionPivot(c, buf, from, to) ==
    LET pivot == medianOfThree(c, buf[from], buf[from + (to - from) \div 2], buf[to - 1])
        range == Run(buf, from, to - from)
        lower == SelectSeq(range, LAMBDA x : compare(c, x, pivot))
        upper == SelectSeq(range, LAMBDA x : ~compare(c, x, pivot))
    IN  [buf |-> PutRun(buf, from, lower \o upper), cut |-> from + Len(lower)]

\* The heapsort fallback on a sequence: the k-th entry of what it leaves is the
\* value that fewer than k entries come before and at least k do not come after.
heapSort(c, s) ==
    [k \in 1..Len(s) |->
        CHOOSE v \in {s[j] : j \in 1..Len(s)} :
            /\ Cardinality({j \in 1..Len(s) : compare(c, s[j], v)}) < k
            /\ k <= Cardinality({j \in 1..Len(s) : ~compare(c, v, s[j])})]

\* One iteration of internal::introsortLoop: the range on top of the stack is
\* dropped when it is no longer than the threshold, sorted by the fallback
\* when its depth is used up, and partitioned in two ranges otherwise.
introsortLoopIteration(st) ==
    LET top == st.ranges[Len(st.ranges)]
        others == SubSeq(st.ranges, 1, Len(st.ranges) - 1)
    IN  IF st.ranges = <<>> THEN [st EXCEPT !.pc = "insertionSort", !.i = 1]
        ELSE IF top.to - top.from <= INTROSORT_THRESHOLD THEN [st EXCEPT !.ranges = others]
        ELSE IF top.depth = 0
        THEN [st EXCEPT !.ranges = others,
                        !.buf = PutRun(st.buf, top.from,
                                       heapSort(st.comp, Run(st.buf, top.from, top.to - top.from)))]
        ELSE LET p == partitionPivot(st.comp, st.buf, top.from, top.to) IN
             [st EXCEPT !.buf = p.buf,
                        !.ranges = others \o
                            <<[from |-> top.from, to |-> p.cut, depth |-> top.depth - 1],
                              [from |-> p.cut, to |-> top.to, depth |-> top.depth - 1]>>]

\* Where insertionSort puts value: below the entries of [0, j) that come after
\* it, looked at from the last one down.
RECURSIVE insertionPosition(_, _, _, _)
insertionPosition(c, buf, value, j) ==
    IF j > 0 /\ compare(c, value, buf[j - 1])
    THEN insertionPosition(c, buf, value, j - 1)
    ELSE j

\* One iteration of internal::insertionSort( first, n, comp ): buf[i] goes to
\* its place among the i entries before it.
insertionSortIteration(st) ==
    IF st.i >= Cap(st.buf) THEN [st EXCEPT !.pc = "done"]
    ELSE LET value == st.buf[st.i]
             pos == insertionPosition(st.comp, st.buf, value, st.i)
         IN  [st EXCEPT !.i = st.i + 1,
                        !.buf = [k \in DOMAIN st.buf |->
                                    IF k = pos THEN value
                                    ELSE IF pos < k /\ k <= st.i THEN st.buf[k - 1]
                                    ELSE st.buf[k]]]

makeSortedCall_NoInsertionSortAfterLoop(st) ==
    IF st.pc = "introsortLoop" THEN [st EXCEPT !.pc = "done"]
    ELSE IF Cap(st.buf) > INTROSORT_THRESHOLD
    THEN [st EXCEPT !.pc = "introsortLoop",
                    !.ranges = <<[from |-> 0, to |-> Cap(st.buf),
                                  depth |-> depthLimit(Cap(st.buf))]>>]
    ELSE [st EXCEPT !.pc = "insertionSort", !.i = 1]

\* makeSorted( first, last, comp ): what it calls next, at its start and when
\* introsortLoop has returned.
makeSortedCall(st) ==
    IF st.pc = "introsortLoop" THEN [st EXCEPT !.pc = "insertionSort", !.i = 1]
    ELSE IF Cap(st.buf) > INTROSORT_THRESHOLD
    THEN [st EXCEPT !.pc = "introsortLoop",
                    !.ranges = <<[from |-> 0, to |-> Cap(st.buf),
                                  depth |-> depthLimit(Cap(st.buf))]>>]
    ELSE [st EXCEPT !.pc = "insertionSort", !.i = 1]

\* The step of makeSorted from st.
makeSortedStep(st) ==
    IF st.pc = "call" THEN makeSortedCall(st)
    ELSE IF st.pc = "introsortLoop"
    THEN (IF st.ranges = <<>> THEN makeSortedCall(st) ELSE introsortLoopIteration(st))
    ELSE insertionSortIteration(st)

\* A call of makeSorted on buf, at its start.
makeSortedStart(c, buf) ==
    [op |-> "makeSorted", pc |-> "call", comp |-> c, input |-> buf, buf |-> buf,
     ranges |-> <<>>, i |-> 0]

RECURSIVE makeSortedRun(_)
makeSortedRun(st) == IF st.pc = "done" THEN st.buf ELSE makeSortedRun(makeSortedStep(st))

\* makeSorted( first, last, comp ) from call to return: the range it leaves.
makeSorted(c, buf) == makeSortedRun(makeSortedStart(c, buf))

\* ------------------------------------------- insert and remove of a batch
\* The length of localBuffer in the batched insert and remove.
LOCAL_SIZE == 16

\* The memory a batched call works in: the caller's values, the localBuffer of
\* the call (N cells, none written yet), the block malloc gave, and how many
\* times malloc and free were called.
batchMemory(values, N) ==
    [values |-> values, localBuffer |-> [k \in 0..(N - 1) |-> Uninit], heap |-> Empty0,
     mallocs |-> 0, frees |-> 0]

createTemporaryBuffer_NoCopy(mem, nVals, N) ==
    [mem |-> mem, buffer |-> "values"]

\* createTemporaryBuffer( values, nVals, localBuffer ): the copy of values, in
\* localBuffer when it fits there and in a block from malloc otherwise.
createTemporaryBuffer(mem, nVals, N) ==
    IF nVals <= N
    THEN [mem |-> [mem EXCEPT !.localBuffer =
                       [k \in 0..(N - 1) |-> IF k < nVals THEN mem.values[k] ELSE @[k]]],
          buffer |-> "localBuffer"]
    ELSE [mem |-> [mem EXCEPT !.heap = [k \in 0..(nVals - 1) |-> mem.values[k]],
                              !.mallocs = @ + 1],
          buffer |-> "heap"]

\* freeTemporaryBuffer( buffer, nVals, localBuffer )
freeTemporaryBuffer(mem, buffer, nVals) ==
    IF buffer = "localBuffer" THEN mem
    ELSE [mem EXCEPT ![buffer] = Empty0, !.frees = @ + 1]

\* makeSorted( buffer, buffer + nVals ) on the memory mem.
makeSortedIn(mem, buffer, nVals) ==
    [mem EXCEPT ![buffer] = PutRun(@, 0, ToSeq0(makeSorted("less", ToBuf(Run(@, 0, nVals)))))]

\* The batched insert( ptr, size, values, nVals, callBacks ) with a localBuffer
\* of N cells.
insertValues(ptr, size, values, nVals, N) ==
    LET created == createTemporaryBuffer(batchMemory(values, N), nVals, N)
        sorted == makeSortedIn(created.mem, created.buffer, nVals)
        r == insertSorted(ptr, size, sorted[created.buffer], nVals, MAX_PRE_CALCULATED)
    IN  [ptr |-> r.ptr, size |-> r.size, ret |-> r.ret, log |-> r.log,
         buffer |-> created.buffer,
         mem |-> freeTemporaryBuffer(sorted, created.buffer, nVals)]

\* The batched remove( ptr, size, values, nVals, callBacks ) with a localBuffer
\* of N cells.
removeValues(ptr, size, values, nVals, N) ==
    LET created == createTemporaryBuffer(batchMemory(values, N), nVals, N)
        sorted == makeSortedIn(created.mem, created.buffer, nVals)
        r == removeSorted(ptr, size, sorted[created.buffer], nVals)
    IN  [ptr |-> r.ptr, size |-> r.size, ret |-> r.ret, log |-> r.log,
         buffer |-> created.buffer,
         mem |-> freeTemporaryBuffer(sorted, created.buffer, nVals)]

\* ------------------------------------------------------ ArrayOfArraysView
size == m_numArrays

sizeOfArray(i) == m_sizes[i]

capacityOfArray(i) == m_offsets[i + 1] - m_offsets[i]

valueCapacity == Cap(m_values)

\* ARRAYOFARRAYS_CHECK_BOUNDS( i ): TRUE when the check passes.
CheckBounds(i) == isPositive(i) /\ i < size

CheckBounds2_Capacity(i, j) == CheckBounds(i) /\ isPositive(j) /\ j < capacityOfArray(i)

\* ARRAYOFARRAYS_CHECK_BOUNDS2( i, j )
CheckBounds2(i, j) == CheckBounds(i) /\ isPositive(j) /\ j < sizeOfArray(i)

\* ARRAYOFARRAYS_CHECK_INSERT_BOUNDS2( i, j )
CheckInsertBounds2(i, j) == CheckBounds(i) /\ isPositive(j) /\ j <= sizeOfArray(i)

CapacityCheck_OffByOne(i, increase) ==
    sizeOfArray(i) + increase <= capacityOfArray(i) + 1

\* ARRAYOFARRAYS_CAPACITY_CHECK( i, increase )
CapacityCheck(i, increase) == sizeOfArray(i) + increase <= capacityOfArray(i)

AtomicCapacityCheck_OffByOne(i, previousSize, increase) ==
    previousSize + increase <= capacityOfArray(i) + 1

\* ARRAYOFARRAYS_ATOMIC_CAPACITY_CHECK( i, previousSize, increase )
AtomicCapacityCheck(i, previousSize, increase) ==
    previousSize + increase <= capacityOfArray(i)

\* The live values of sub-array i, in order: what operator[]( i ) shows.
ArrayOf(i) == Run(m_values, m_offsets[i], m_sizes[i])

\* The call that produced the state: its name, the sub-array it was given and
\* one number about the state it started from (see each action).
Op(name, i, k) == [op |-> name, i |-> i, k |-> k]

NoCall == Op("none", 0, 0)

\* Calls are made while the program runs and the run has not been closed.
Running == ~fatal /\ lastOp = NoCall

\* A call's record is kept when it is the last call of the run.
Record(op) == lastOp' \in {NoCall, op}

\* LVARRAY_ERROR_IF fired: the call ends here and nothing else is written.
Fatal(op) ==
    /\ fatal' = TRUE
    /\ lastOp' = op
    /\ UNCHANGED <<m_numArrays, m_offsets, m_sizes, m_values>>

\* destroyValues' loop over the arrays [begin, end): arrayManipulation::destroy
\* on the live values of each.
RECURSIVE destroyValuesLoop(_, _, _)
destroyValuesLoop(buf, begin, end) ==
    IF begin >= end THEN buf
    ELSE destroyValuesLoop(amDestroy(buf, m_offsets[begin], sizeOfArray(begin)), begin + 1, end)

\* std::is_trivially_destructible< T >::value, the test destroyValues makes
\* before moving the buffers to the host, for an element type T that has a
\* destructor.
isTriviallyDestructible_ElementType == FALSE

\* std::is_trivially_destructible< decltype( buffer[ 0 ] ) >::value, the test
\* destroyValues makes on each buffer: buffer[ 0 ] is an lvalue, so the type
\* tested is the reference type T &, and a reference type is trivially
\* destructible whatever T is.
isTriviallyDestructible == TRUE

\* destroyValues( begin, end ): the loop runs only when the test fails.
destroyValues(buf, begin, end) ==
    IF ~isTriviallyDestructible THEN destroyValuesLoop(buf, begin, end) ELSE buf

\* ArrayOfArraysView(): the default constructor.
Init ==
    /\ m_numArrays = 0
    /\ m_offsets = Empty0
    /\ m_sizes = Empty0
    /\ m_values = Empty0
    /\ fatal = FALSE
    /\ lastOp = NoCall
    /\ threads = <<>>
    /\ sa = <<>>
    /\ spaces = Allocated(FALSE)

EmplaceBack_NoCapacityCheck(i, v) ==
    /\ Running
    /\ UNCHANGED <<threads, sa, spaces>>
    /\ IF ~CheckBounds(i) THEN Fatal(Op("emplaceBack", i, 0))
       ELSE /\ m_values' = amEmplaceBack(m_values, m_offsets[i], sizeOfArray(i), v)
            /\ m_sizes' = [m_sizes EXCEPT ![i] = @ + 1]
            /\ lastOp' = Op("emplaceBack", i, sizeOfArray(i))
            /\ UNCHANGED <<m_numArrays, m_offsets, fatal>>

EmplaceBack_SizeKept(i, v) ==
    /\ Running
    /\ UNCHANGED <<threads, sa, spaces>>
    /\ IF ~CheckBounds(i) THEN Fatal(Op("emplaceBack", i, 0))
       ELSE IF ~CapacityCheck(i, 1) THEN Fatal(Op("emplaceBack", i, sizeOfArray(i)))
       ELSE /\ m_values' = amEmplaceBack(m_values, m_offsets[i], sizeOfArray(i), v)
            /\ Record(Op("emplaceBack", i, sizeOfArray(i)))
            /\ UNCHANGED <<m_numArrays, m_offsets, m_sizes, fatal>>

\* emplaceBack( i, value ); k: the size of sub-array i before the call.
EmplaceBack(i, v) ==
    /\ Running
    /\ UNCHANGED <<threads, sa, spaces>>
    /\ IF ~CheckBounds(i) THEN Fatal(Op("emplaceBack", i, 0))
       ELSE IF ~CapacityCheck(i, 1) THEN Fatal(Op("emplaceBack", i, sizeOfArray(i)))
       ELSE /\ m_values' = amEmplaceBack(m_values, m_offsets[i], sizeOfArray(i), v)
            /\ m_sizes' = [m_sizes EXCEPT ![i] = @ + 1]
            /\ Record(Op("emplaceBack", i, sizeOfArray(i)))
            /\ UNCHANGED <<m_numArrays, m_offsets, fatal>>

\* emplaceBackAtomic( i, value ) run by one thread from call to return;
\* k: the size of sub-array i before the call.
EmplaceBackAtomic(i, v) ==
    /\ Running
    /\ UNCHANGED <<threads, sa, spaces>>
    /\ IF ~CheckBounds(i) THEN Fatal(Op("emplaceBackAtomic", i, 0))
       ELSE LET previousSize == m_sizes[i] IN
            /\ m_sizes' = [m_sizes EXCEPT ![i] = @ + 1]
            /\ IF ~AtomicCapacityCheck(i, previousSize, 1)
               THEN /\ fatal' = TRUE
                    /\ lastOp' = Op("emplaceBackAtomic", i, previousSize)
                    /\ UNCHANGED <<m_numArrays, m_offsets, m_values>>
               ELSE /\ m_values' = amEmplaceBack(m_values, m_offsets[i], previousSize, v)
                    /\ Record(Op("emplaceBackAtomic", i, previousSize))
                    /\ UNCHANGED <<m_numArrays, m_offsets, fatal>>

\* appendToArray( i, first, last ); k: the size of sub-array i before the call.
\* The values are written before the capacity is checked.
AppendToArray(i, vs) ==
    /\ Running
    /\ UNCHANGED <<threads, sa, spaces>>
    /\ IF ~CheckBounds(i) THEN Fatal(Op("appendToArray", i, 0))
       ELSE LET n == Len(vs) IN
            /\ m_values' = amAppend(m_values, m_offsets[i], sizeOfArray(i), vs)
            /\ IF ~CapacityCheck(i, n)
               THEN /\ fatal' = TRUE
                    /\ lastOp' = Op("appendToArray", i, sizeOfArray(i))
                    /\ UNCHANGED <<m_numArrays, m_offsets, m_sizes>>
               ELSE /\ m_sizes' = [m_sizes EXCEPT ![i] = @ + n]
                    /\ Record(Op("appendToArray", i, sizeOfArray(i)))
                    /\ UNCHANGED <<m_numArrays, m_offsets, fatal>>

\* emplace( i, j, value ); k: the size of sub-array i before the call.
Emplace(i, j, v) ==
    /\ Running
    /\ UNCHANGED <<threads, sa, spaces>>
    /\ IF ~CheckInsertBounds2(i, j) THEN Fatal(Op("emplace", i, 0))
       ELSE IF ~CapacityCheck(i, 1) THEN Fatal(Op("emplace", i, sizeOfArray(i)))
       ELSE /\ m_values' = amEmplace(m_values, m_offsets[i], sizeOfArray(i), j, v)
            /\ m_sizes' = [m_sizes EXCEPT ![i] = @ + 1]
            /\ Record(Op("emplace", i, sizeOfArray(i)))
            /\ UNCHANGED <<m_numArrays, m_offsets, fatal>>

InsertIntoArray_SizeByOne(i, j, vs) ==
    /\ Running
    /\ UNCHANGED <<threads, sa, spaces>>
    /\ IF ~CheckInsertBounds2(i, j) THEN Fatal(Op("insertIntoArray", i, 0))
       ELSE LET n == Len(vs) IN
            IF ~CapacityCheck(i, n) THEN Fatal(Op("insertIntoArray", i, sizeOfArray(i)))
            ELSE /\ m_values' = amInsert(m_values, m_offsets[i], sizeOfArray(i), j, vs)
                 /\ m_sizes' = [m_sizes EXCEPT ![i] = @ + 1]
                 /\ Record(Op("insertIntoArray", i, sizeOfArray(i)))
                 /\ UNCHANGED <<m_numArrays, m_offsets, fatal>>

InsertIntoArray_NoCapacityCheck(i, j, vs) ==
    /\ Running
    /\ UNCHANGED <<threads, sa, spaces>>
    /\ IF ~CheckInsertBounds2(i, j) THEN Fatal(Op("insertIntoArray", i, 0))
       ELSE LET n == Len(vs) IN
            /\ m_values' = amInsert(m_values, m_offsets[i], sizeOfArray(i), j, vs)
            /\ m_sizes' = [m_sizes EXCEPT ![i] = @ + n]
            /\ Record(Op("insertIntoArray", i, sizeOfArray(i)))
            /\ UNCHANGED <<m_numArrays, m_offsets, fatal>>

\* insertIntoArray( i, j, first, last ); k: the size of sub-array i before the call.
InsertIntoArray(i, j, vs) ==
    /\ Running
    /\ UNCHANGED <<threads, sa, spaces>>
    /\ IF ~CheckInsertBounds2(i, j) THEN Fatal(Op("insertIntoArray", i, 0))
       ELSE LET n == Len(vs) IN
            IF ~CapacityCheck(i, n) THEN Fatal(Op("insertIntoArray", i, sizeOfArray(i)))
            ELSE /\ m_values' = amInsert(m_values, m_offsets[i], sizeOfArray(i), j, vs)
                 /\ m_sizes' = [m_sizes EXCEPT ![i] = @ + n]
                 /\ Record(Op("insertIntoArray", i, sizeOfArray(i)))
                 /\ UNCHANGED <<m_numArrays, m_offsets, fatal>>

EraseFromArray_SizeLessOne(i, j, n) ==
    /\ Running
    /\ UNCHANGED <<threads, sa, spaces>>
    /\ IF ~CheckBounds2(i, j) THEN Fatal(Op("eraseFromArray", i, 0))
       ELSE /\ j + n <= sizeOfArray(i)
            /\ m_values' = amErase(m_values, m_offsets[i], sizeOfArray(i), j, n)
            /\ m_sizes' = [m_sizes EXCEPT ![i] = @ - 1]
            /\ Record(Op("eraseFromArray", i, sizeOfArray(i)))
            /\ UNCHANGED <<m_numArrays, m_offsets, fatal>>

\* eraseFromArray( i, j, n ), for the calls arrayManipulation::erase is defined
\* on (n >= 0 and j + n <= size); k: the size of sub-array i before the call.
EraseFromArray(i, j, n) ==
    /\ Running
    /\ UNCHANGED <<threads, sa, spaces>>
    /\ IF ~CheckBounds2(i, j) THEN Fatal(Op("eraseFromArray", i, 0))
       ELSE /\ j + n <= sizeOfArray(i)
            /\ m_values' = amErase(m_values, m_offsets[i], sizeOfArray(i), j, n)
            /\ m_sizes' = [m_sizes EXCEPT ![i] = @ - n]
            /\ Record(Op("eraseFromArray", i, sizeOfArray(i)))
            /\ UNCHANGED <<m_numArrays, m_offsets, fatal>>

resizeOffsets_FromZero(offs, oldNum, newSize, originalOffset, defaultArrayCapacity) ==
    [k \in DOMAIN offs |->
        IF k > oldNum /\ k <= newSize
        THEN (k - oldNum) * defaultArrayCapacity
        ELSE offs[k]]

\* The offsets written by resize's loop over the new arrays.
resizeOffsets(offs, oldNum, newSize, originalOffset, defaultArrayCapacity) ==
    [k \in DOMAIN offs |->
        IF k > oldNum /\ k <= newSize
        THEN originalOffset + (k - oldNum) * defaultArrayCapacity
        ELSE offs[k]]

\* resize( newSize, defaultArrayCapacity ); k: the number of arrays before.
Resize(newSize, defaultArrayCapacity) ==
    /\ Running
    /\ UNCHANGED <<threads, sa, spaces>>
    /\ LET offsetsSize == IF m_numArrays = 0 THEN 0 ELSE m_numArrays + 1 IN
       IF newSize < m_numArrays
       THEN /\ m_values' = destroyValues(m_values, newSize, m_numArrays)
            /\ m_offsets' = bufResize(m_offsets, offsetsSize, newSize + 1, 0)
            /\ m_sizes' = bufResize(m_sizes, m_numArrays, newSize, 0)
       ELSE LET originalOffset == IF m_numArrays = 0 THEN 0 ELSE m_offsets[m_numArrays]
                offs1 == bufResize(m_offsets, offsetsSize, newSize + 1, originalOffset)
                offs2 == resizeOffsets(offs1, m_numArrays, newSize, originalOffset,
                                       defaultArrayCapacity)
            IN  /\ m_sizes' = bufResize(m_sizes, m_numArrays, newSize, 0)
                /\ IF defaultArrayCapacity > 0
                   THEN /\ offs2[newSize] <= MaxOffset
                        /\ m_offsets' = offs2
                        /\ m_values' = bufReserve(m_values, offs2[m_numArrays], offs2[newSize])
                   ELSE /\ m_offsets' = offs1
                        /\ m_values' = m_values
    /\ m_numArrays' = newSize
    /\ Record(Op("resize", newSize, m_numArrays))
    /\ UNCHANGED fatal

RECURSIVE inclusiveScan_PreviousCapacity(_, _)
inclusiveScan_PreviousCapacity(capacities, k) ==
    IF k = 0 THEN capacities[0]
    ELSE inclusiveScan_PreviousCapacity(capacities, k - 1) + capacities[k - 1]

\* RAJA::inclusive_scan of the capacities, written at m_offsets.data() + 1.
RECURSIVE inclusiveScan(_, _)
inclusiveScan(capacities, k) ==
    IF k = 0 THEN capacities[0] ELSE inclusiveScan(capacities, k - 1) + capacities[k]

\* resizeFromCapacities( numSubArrays, capacities ); k: the number of arrays before.
ResizeFromCapacities(numSubArrays, capacities) ==
    /\ Running
    /\ UNCHANGED <<threads, sa, spaces>>
    /\ IF \E k \in 0..(numSubArrays - 1) : capacities[k] < 0
       THEN Fatal(Op("resizeFromCapacities", numSubArrays, m_numArrays))
       ELSE LET offs == [k \in 0..numSubArrays |->
                            IF k = 0 THEN 0 ELSE inclusiveScan(capacities, k - 1)]
            IN  /\ offs[numSubArrays] <= MaxOffset
                /\ m_sizes' = [k \in 0..(numSubArrays - 1) |-> 0]
                /\ m_offsets' = offs
                /\ m_numArrays' = numSubArrays
                /\ m_values' = bufReserve(destroyValues(m_values, 0, m_numArrays), 0,
                                          offs[numSubArrays])
                /\ Record(Op("resizeFromCapacities", numSubArrays, m_numArrays))
                /\ UNCHANGED fatal

\* free(); i: the number of live values still constructed in the value buffer
\* when buffer.free() releases it, k: the number of arrays before.
Free ==
    /\ Running
    /\ UNCHANGED <<threads, sa, spaces>>
    /\ m_numArrays' = 0
    /\ m_offsets' = Empty0
    /\ m_sizes' = Empty0
    /\ m_values' = Empty0
    /\ Record(Op("free",
                 Cardinality({s \in DOMAIN m_values :
                                 /\ \E a \in 0..(m_numArrays - 1) :
                                        m_offsets[a] <= s /\ s < m_offsets[a] + sizeOfArray(a)
                                 /\ destroyValues(m_values, 0, m_numArrays)[s] # Uninit}),
                 m_numArrays))
    /\ UNCHANGED fatal

RECURSIVE compressLoop_KeepSize(_, _)
compressLoop_KeepSize(st, i) ==
    IF i >= m_numArrays - 1 THEN st
    ELSE LET offs == st[1]
             nextOffset == offs[i + 1]
             shiftAmount == nextOffset - offs[i]
             sizeOfNextArray == sizeOfArray(i + 1)
         IN  compressLoop_KeepSize(
                 << [offs EXCEPT ![i + 1] = @ - shiftAmount],
                    amUninitializedShiftDown(st[2], nextOffset, sizeOfNextArray, shiftAmount) >>,
                 i + 1)

RECURSIVE compressLoop_WrongArray(_, _)
compressLoop_WrongArray(st, i) ==
    IF i >= m_numArrays - 1 THEN st
    ELSE LET offs == st[1]
             nextOffset == offs[i + 1]
             shiftAmount == nextOffset - offs[i] - sizeOfArray(i)
             sizeOfNextArray == sizeOfArray(i)
         IN  compressLoop_WrongArray(
                 << [offs EXCEPT ![i + 1] = @ - shiftAmount],
                    amUninitializedShiftDown(st[2], nextOffset, sizeOfNextArray, shiftAmount) >>,
                 i + 1)

\* The loop of compress over the arrays [i, m_numArrays - 1): st is the pair of
\* the offsets and the values so far.
RECURSIVE compressLoop(_, _)
compressLoop(st, i) ==
    IF i >= m_numArrays - 1 THEN st
    ELSE LET offs == st[1]
             nextOffset == offs[i + 1]
             shiftAmount == nextOffset - offs[i] - sizeOfArray(i)
             sizeOfNextArray == sizeOfArray(i + 1)
         IN  compressLoop(
                 << [offs EXCEPT ![i + 1] = @ - shiftAmount],
                    amUninitializedShiftDown(st[2], nextOffset, sizeOfNextArray, shiftAmount) >>,
                 i + 1)

compress_LastOffsetKept ==
    compressLoop(<<m_offsets, m_values>>, 0)

\* What compress() leaves in <<m_offsets, m_values>>.
compress ==
    LET st == compressLoop(<<m_offsets, m_values>>, 0)
        offs == st[1]
    IN  << [offs EXCEPT ![m_numArrays] = offs[m_numArrays - 1] + sizeOfArray(m_numArrays - 1)],
           st[2] >>

\* compress(); i: how far the last array was moved down, k: the capacity removed
\* (m_offsets[m_numArrays] before minus after).
Compress ==
    /\ Running
    /\ UNCHANGED <<threads, sa, spaces>>
    /\ IF m_numArrays = 0
       THEN /\ Record(Op("compress", 0, 0))
            /\ UNCHANGED <<m_offsets, m_values>>
       ELSE /\ m_offsets' = compress[1]
            /\ m_values' = compress[2]
            /\ Record(Op("compress", m_offsets[m_numArrays - 1] - compress[1][m_numArrays - 1],
                         m_offsets[m_numArrays] - compress[1][m_numArrays]))
    /\ UNCHANGED <<m_numArrays, m_sizes, fatal>>

\* setCapacityOfArray, growing: shift up the arrays m_numArrays - 1 down to i + 1.
RECURSIVE shiftArraysUp(_, _, _, _)
shiftArraysUp(buf, array, i, capacityIncrease) ==
    IF array <= i THEN buf
    ELSE shiftArraysUp(
             amUninitializedShiftUp(buf, m_offsets[array], sizeOfArray(array), capacityIncrease),
             array - 1, i, capacityIncrease)

\* setCapacityOfArray, shrinking: shift down the arrays i + 1 up to m_numArrays - 1.
RECURSIVE shiftArraysDown(_, _, _)
shiftArraysDown(buf, array, capacityDecrease) ==
    IF array >= m_numArrays THEN buf
    ELSE shiftArraysDown(
             amUninitializedShiftDown(buf, m_offsets[array], sizeOfArray(array), capacityDecrease),
             array + 1, capacityDecrease)

min_First(a, b) == a

min(a, b) == IF a < b THEN a ELSE b

setCapacityOffsets_FromI(i, capacityIncrease) ==
    [k \in DOMAIN m_offsets |->
        IF k >= i
        THEN m_offsets[k] + capacityIncrease
        ELSE m_offsets[k]]

setCapacityOffsets_LastKept(i, capacityIncrease) ==
    [k \in DOMAIN m_offsets |->
        IF k >= i + 1 /\ k < m_numArrays
        THEN m_offsets[k] + capacityIncrease
        ELSE m_offsets[k]]

\* setCapacityOfArray's update of the offsets of the arrays after i.
setCapacityOffsets(i, capacityIncrease) ==
    [k \in DOMAIN m_offsets |->
        IF k >= i + 1 /\ k < m_numArrays + 1
        THEN m_offsets[k] + capacityIncrease
        ELSE m_offsets[k]]

\* setCapacityOfArray( i, newCapacity ); k: the capacity of sub-array i before.
SetCapacityOfArray(i, newCapacity) ==
    /\ Running
    /\ UNCHANGED <<threads, sa, spaces>>
    /\ IF ~CheckBounds(i) THEN Fatal(Op("setCapacityOfArray", i, 0))
       ELSE LET arrayCapacity == capacityOfArray(i)
                capacityIncrease == newCapacity - arrayCapacity
                maxOffset == m_offsets[m_numArrays]
                arrayOffset == m_offsets[i]
                prevArraySize == sizeOfArray(i)
                newArraySize == min(prevArraySize, newCapacity)
            IN  /\ Record(Op("setCapacityOfArray", i, arrayCapacity))
                /\ UNCHANGED <<m_numArrays, fatal>>
                /\ IF capacityIncrease = 0
                   THEN UNCHANGED <<m_offsets, m_sizes, m_values>>
                   ELSE /\ maxOffset + capacityIncrease <= MaxOffset
                        /\ IF capacityIncrease > 0
                           THEN /\ m_values' = shiftArraysUp(
                                       bufDynamicReserve(m_values, maxOffset,
                                                         maxOffset + capacityIncrease),
                                       m_numArrays - 1, i, capacityIncrease)
                                /\ m_sizes' = m_sizes
                           ELSE /\ m_sizes' = [m_sizes EXCEPT ![i] = newArraySize]
                                /\ m_values' = shiftArraysDown(
                                       amDestroy(m_values, arrayOffset + newArraySize,
                                                 prevArraySize - newArraySize),
                                       i + 1, -capacityIncrease)
                        /\ m_offsets' = setCapacityOffsets(i, capacityIncrease)

\* The containers handed to setEqualTo as its source: every layout of at most
\* MaxSrcArrays arrays within MaxSrcOffset slots, the live slot k holding the
\* value ((k + s) % MaxVal) + 1.
srcLayouts(n) ==
    {o \in [0..n -> 0..MaxSrcOffset] :
        o[0] = 0 /\ \A k \in 0..(n - 1) : o[k] <= o[k + 1]}

Sources ==
    UNION { UNION { { [numArrays |-> n, offsets |-> o, sizes |-> sz,
                      values |-> [k \in 0..(o[n] - 1) |->
                                    IF \E a \in 0..(n - 1) : o[a] <= k /\ k < o[a] + sz[a]
                                    THEN ((k + s) % MaxVal) + 1 ELSE Uninit]] :
                      sz \in {z \in [0..(n - 1) -> 0..MaxSrcOffset] :
                                 \A a \in 0..(n - 1) : z[a] <= o[a + 1] - o[a]},
                      s \in 0..1 } :
                    o \in srcLayouts(n) } :
            n \in 0..MaxSrcArrays }

\* uninitializedCopy of the live values of every array i of src, at the same offset.
setEqualToCopy(buf, src) ==
    [k \in DOMAIN buf |->
        IF \E a \in 0..(src.numArrays - 1) :
               src.offsets[a] <= k /\ k < src.offsets[a] + src.sizes[a]
        THEN src.values[k] ELSE buf[k]]

\* setEqualTo( srcNumArrays, srcMaxOffset, srcOffsets, srcSizes, srcValues );
\* k: the number of arrays before.  maxOffset is read at the previous
\* m_numArrays after the offsets were copied: a source offset, or the entry the
\* previous offsets left there.  When it exceeds the capacity of the value
\* buffer and reserve reallocates, reserve moves entries from past the end of
\* the allocation: the program stops there, or some value g is read.
SetEqualTo(src) ==
    /\ Running
    /\ UNCHANGED <<threads, sa, spaces>>
    /\ LET srcMaxOffset == src.offsets[src.numArrays]
           offsetsSize == IF m_numArrays = 0 THEN 0 ELSE m_numArrays + 1
           offs == bufCopyInto(m_offsets, offsetsSize, src.offsets, src.numArrays + 1)
           szs == bufCopyInto(m_sizes, m_numArrays, src.sizes, src.numArrays)
           maxOffset == IF m_numArrays \in DOMAIN offs THEN offs[m_numArrays]
                        ELSE m_offsets[m_numArrays]
           destroyed == destroyValues(m_values, 0, m_numArrays)
       IN  /\ m_offsets' = offs
           /\ m_sizes' = szs
           /\ IF srcMaxOffset > Cap(m_values) /\ maxOffset > Cap(m_values)
              THEN \/ /\ fatal' = TRUE
                      /\ lastOp' = Op("setEqualTo", src.numArrays, m_numArrays)
                      /\ m_values' = destroyed
                      /\ UNCHANGED m_numArrays
                   \/ \E g \in Vals :
                         /\ m_values' = setEqualToCopy(
                                bufReserveBeyond(destroyed, maxOffset, srcMaxOffset, g), src)
                         /\ m_numArrays' = src.numArrays
                         /\ Record(Op("setEqualTo", src.numArrays, m_numArrays))
                         /\ UNCHANGED fatal
              ELSE /\ m_values' = setEqualToCopy(
                                     bufReserve(destroyed, maxOffset, srcMaxOffset), src)
                   /\ m_numArrays' = src.numArrays
                   /\ Record(Op("setEqualTo", src.numArrays, m_numArrays))
                   /\ UNCHANGED fatal

Next ==
    \/ \E i \in 0..MaxArrays, v \in Vals : EmplaceBack(i, v)
    \/ \E i \in 0..MaxArrays, v \in Vals : EmplaceBackAtomic(i, v)
    \/ \E i \in 0..MaxArrays, vs \in Batches : AppendToArray(i, vs)
    \/ \E i \in 0..MaxArrays, j \in 0..MaxOffset, v \in Vals : Emplace(i, j, v)
    \/ \E i \in 0..MaxArrays, j \in 0..MaxOffset, vs \in Batches : InsertIntoArray(i, j, vs)
    \/ \E i \in 0..MaxArrays, j \in 0..MaxOffset, n \in 0..MaxOffset : EraseFromArray(i, j, n)
    \/ \E newSize \in 0..MaxArrays, c \in 0..MaxOffset : Resize(newSize, c)
    \/ \E n \in 0..MaxArrays : \E caps \in [0..(n - 1) -> 0..MaxOffset] :
          ResizeFromCapacities(n, caps)
    \/ Free
    \/ Compress
    \/ \E i \in 0..MaxArrays, c \in 0..MaxOffset : SetCapacityOfArray(i, c)
    \/ \E src \in Sources : SetEqualTo(src)

Spec == Init /\ [][Next]_vars

\* ------------------------------------------------------------------ claims
\* The live slots of sub-array i in the value buffer.
\* ------------------------------------------- threads in emplaceBackAtomic
\* NumThreads threads, each calling emplaceBackAtomic( i, v ) once on the same
\* sub-array i of a container that resizeFromCapacities left: every sub-array
\* empty.  A thread's steps are the bounds check with the read of the array's
\* start, the atomic increment of m_sizes[ i ], and the capacity check with the
\* construction of the value; a fatal error ends every thread.
ThreadIds == 1..NumThreads

\* The containers resizeFromCapacities produces within MaxSrcOffset slots.
AtomicLayouts ==
    UNION { { [numArrays |-> n, offsets |-> o] : o \in srcLayouts(n) } :
            n \in 1..MaxSrcArrays }

InitAtomic ==
    \E c \in AtomicLayouts :
        /\ m_numArrays = c.numArrays
        /\ m_offsets = c.offsets
        /\ m_sizes = [k \in 0..(c.numArrays - 1) |-> 0]
        /\ m_values = [k \in 0..(c.offsets[c.numArrays] - 1) |-> Uninit]
        /\ fatal = FALSE
        /\ lastOp = NoCall
        /\ sa = <<>>
        /\ spaces = Allocated(FALSE)
        /\ \E i \in 0..(c.numArrays - 1) : \E vs \in [ThreadIds -> Vals] :
               threads = [t \in ThreadIds |->
                            [pc |-> "call", i |-> i, v |-> vs[t], ptr |-> 0,
                             previousSize |-> 0]]

\* ARRAYOFARRAYS_CHECK_BOUNDS( i ); ptr = m_values.data() + m_offsets[ i ].
AtomicCall(t) ==
    /\ ~fatal
    /\ threads[t].pc = "call"
    /\ UNCHANGED <<sa, spaces>>
    /\ IF ~CheckBounds(threads[t].i)
       THEN /\ Fatal(Op("emplaceBackAtomic", threads[t].i, 0))
            /\ UNCHANGED threads
       ELSE /\ threads' = [threads EXCEPT ![t].pc = "inc",
                                          ![t].ptr = m_offsets[threads[t].i]]
            /\ UNCHANGED aoaVars

AtomicInc_ReturnsNewSize(t) ==
    /\ ~fatal
    /\ threads[t].pc = "inc"
    /\ threads' = [threads EXCEPT ![t].pc = "construct",
                                  ![t].previousSize = m_sizes[threads[t].i] + 1]
    /\ m_sizes' = [m_sizes EXCEPT ![threads[t].i] = @ + 1]
    /\ UNCHANGED <<m_numArrays, m_offsets, m_values, fatal, lastOp, sa, spaces>>

AtomicInc_NotAtomic(t) ==
    /\ ~fatal
    /\ threads[t].pc = "inc"
    /\ threads' = [threads EXCEPT ![t].pc = "construct"]
    /\ m_sizes' = [m_sizes EXCEPT ![threads[t].i] = threads[t].previousSize + 1]
    /\ UNCHANGED <<m_numArrays, m_offsets, m_values, fatal, lastOp, sa, spaces>>

\* previousSize = RAJA::atomicInc( &m_sizes[ i ] ): one indivisible step.
AtomicInc(t) ==
    /\ ~fatal
    /\ threads[t].pc = "inc"
    /\ threads' = [threads EXCEPT ![t].pc = "construct",
                                  ![t].previousSize = m_sizes[threads[t].i]]
    /\ m_sizes' = [m_sizes EXCEPT ![threads[t].i] = @ + 1]
    /\ UNCHANGED <<m_numArrays, m_offsets, m_values, fatal, lastOp, sa, spaces>>

AtomicConstruct_AtSize(t) ==
    /\ ~fatal
    /\ threads[t].pc = "construct"
    /\ UNCHANGED <<sa, spaces>>
    /\ IF ~AtomicCapacityCheck(threads[t].i, threads[t].previousSize, 1)
       THEN /\ Fatal(Op("emplaceBackAtomic", threads[t].i, threads[t].previousSize))
            /\ UNCHANGED threads
       ELSE /\ m_values' = amEmplaceBack(m_values, threads[t].ptr,
                                         m_sizes[threads[t].i] - 1, threads[t].v)
            /\ threads' = [threads EXCEPT ![t].pc = "done"]
            /\ UNCHANGED <<m_numArrays, m_offsets, m_sizes, fatal, lastOp>>

\* ARRAYOFARRAYS_ATOMIC_CAPACITY_CHECK( i, previousSize, 1 ), then
\* arrayManipulation::emplaceBack( ptr, previousSize, value ).
AtomicConstruct(t) ==
    /\ ~fatal
    /\ threads[t].pc = "construct"
    /\ UNCHANGED <<sa, spaces>>
    /\ IF ~AtomicCapacityCheck(threads[t].i, threads[t].previousSize, 1)
       THEN /\ Fatal(Op("emplaceBackAtomic", threads[t].i, threads[t].previousSize))
            /\ UNCHANGED threads
       ELSE /\ m_values' = amEmplaceBack(m_values, threads[t].ptr,
                                         threads[t].previousSize, threads[t].v)
            /\ threads' = [threads EXCEPT ![t].pc = "done"]
            /\ UNCHANGED <<m_numArrays, m_offsets, m_sizes, fatal, lastOp>>

NextAtomic ==
    \/ \E t \in ThreadIds : AtomicCall(t)
    \/ \E t \in ThreadIds : AtomicInc(t)
    \/ \E t \in ThreadIds : AtomicConstruct(t)

SpecAtomic == InitAtomic /\ [][NextAtomic]_vars

\* ------------------------------------ threads in the non-atomic operations
\* NumThreads threads, each calling emplaceBack, emplace or eraseFromArray once,
\* on a container of NumThreads + 1 sub-arrays of capacity WriterCapacity: all
\* on sub-array 0, or thread t on sub-array t - 1.  A thread's steps are the
\* checks with the reads of the array's start and size, the arrayManipulation
\* call on the values, and the load and the store of the update of m_sizes[ i ];
\* a fatal error ends every thread.  sizes0 and values0 keep the sizes and the
\* values the threads were started on.
WriterCalls ==
    {[op |-> "emplaceBack", j |-> 0, n |-> 1]}
    \cup {[op |-> "emplace", j |-> j, n |-> 1] : j \in 0..WriterCapacity}
    \cup {[op |-> "eraseFromArray", j |-> j, n |-> n] :
              j \in 0..(WriterCapacity - 1), n \in 1..WriterCapacity}

InitNonAtomic ==
    \E s \in 0..WriterCapacity, same \in BOOLEAN, cs \in [ThreadIds -> WriterCalls] :
        LET sizes == [k \in 0..NumThreads |-> s]
            values == [k \in 0..((NumThreads + 1) * WriterCapacity - 1) |->
                          IF k % WriterCapacity < s THEN (k % MaxVal) + 1 ELSE Uninit]
        IN  /\ \A t \in ThreadIds :
                   cs[t].op = "eraseFromArray" => cs[t].j + cs[t].n <= s
            /\ m_numArrays = NumThreads + 1
            /\ m_offsets = [k \in 0..(NumThreads + 1) |-> k * WriterCapacity]
            /\ m_sizes = sizes
            /\ m_values = values
            /\ fatal = FALSE
            /\ lastOp = NoCall
            /\ sa = <<>>
            /\ spaces = Allocated(FALSE)
            /\ threads = [t \in ThreadIds |->
                            [pc |-> "call", op |-> cs[t].op,
                             i |-> IF same THEN 0 ELSE t - 1,
                             j |-> cs[t].j, n |-> cs[t].n,
                             v |-> ((t - 1) % MaxVal) + 1,
                             ptr |-> 0, size |-> 0, loaded |-> 0,
                             sizes0 |-> sizes, values0 |-> values]]

\* The bounds check and the capacity check of the operation c on sub-array i.
NonAtomicChecks(c) ==
    CASE c.op = "emplaceBack" -> CheckBounds(c.i) /\ CapacityCheck(c.i, 1)
      [] c.op = "emplace" -> CheckInsertBounds2(c.i, c.j) /\ CapacityCheck(c.i, 1)
      [] c.op = "eraseFromArray" -> CheckBounds2(c.i, c.j)

NonAtomicCall_FirstArray(t) ==
    /\ ~fatal
    /\ threads[t].pc = "call"
    /\ UNCHANGED <<sa, spaces>>
    /\ IF ~NonAtomicChecks(threads[t])
       THEN /\ Fatal(Op(threads[t].op, threads[t].i, 0))
            /\ UNCHANGED threads
       ELSE /\ threads[t].op = "eraseFromArray"
                  => threads[t].j + threads[t].n <= sizeOfArray(threads[t].i)
            /\ threads' = [threads EXCEPT ![t].pc = "values",
                                          ![t].ptr = m_offsets[0],
                                          ![t].size = sizeOfArray(threads[t].i)]
            /\ UNCHANGED aoaVars

\* The checks, ptr = m_values.data() + m_offsets[ i ] and the read of
\* sizeOfArray( i ) for the arrayManipulation call; eraseFromArray is taken on
\* the calls arrayManipulation::erase is defined on.
NonAtomicCall(t) ==
    /\ ~fatal
    /\ threads[t].pc = "call"
    /\ UNCHANGED <<sa, spaces>>
    /\ IF ~NonAtomicChecks(threads[t])
       THEN /\ Fatal(Op(threads[t].op, threads[t].i, 0))
            /\ UNCHANGED threads
       ELSE /\ threads[t].op = "eraseFromArray"
                  => threads[t].j + threads[t].n <= sizeOfArray(threads[t].i)
            /\ threads' = [threads EXCEPT ![t].pc = "values",
                                          ![t].ptr = m_offsets[threads[t].i],
                                          ![t].size = sizeOfArray(threads[t].i)]
            /\ UNCHANGED aoaVars

\* The arrayManipulation call of the operation c on the value buffer buf:
\* emplaceBack, emplace or erase at ptr with the size read.
nonAtomicValues(buf, c, ptr, sizeRead) ==
    CASE c.op = "emplaceBack" -> amEmplaceBack(buf, ptr, sizeRead, c.v)
      [] c.op = "emplace" -> amEmplace(buf, ptr, sizeRead, c.j, c.v)
      [] c.op = "eraseFromArray" -> amErase(buf, ptr, sizeRead, c.j, c.n)

\* arrayManipulation::emplaceBack, emplace or erase on ptr.
NonAtomicValues(t) ==
    /\ ~fatal
    /\ threads[t].pc = "values"
    /\ m_values' = nonAtomicValues(m_values, threads[t], threads[t].ptr, threads[t].size)
    /\ threads' = [threads EXCEPT ![t].pc = "load"]
    /\ UNCHANGED <<m_numArrays, m_offsets, m_sizes, fatal, lastOp, sa, spaces>>

\* m_sizes[ i ] += 1, m_sizes[ i ]++ or m_sizes[ i ] -= n: the load.
NonAtomicLoadSize(t) ==
    /\ ~fatal
    /\ threads[t].pc = "load"
    /\ threads' = [threads EXCEPT ![t].pc = "store", ![t].loaded = m_sizes[threads[t].i]]
    /\ UNCHANGED <<aoaVars, sa, spaces>>

\* The change the operation c makes to m_sizes[ i ].
sizeChange(c) == IF c.op = "eraseFromArray" THEN 0 - c.n ELSE 1

\* m_sizes[ i ] += 1, m_sizes[ i ]++ or m_sizes[ i ] -= n: the store.
NonAtomicStoreSize(t) ==
    /\ ~fatal
    /\ threads[t].pc = "store"
    /\ m_sizes' = [m_sizes EXCEPT ![threads[t].i] = threads[t].loaded + sizeChange(threads[t])]
    /\ threads' = [threads EXCEPT ![t].pc = "done"]
    /\ UNCHANGED <<m_numArrays, m_offsets, m_values, fatal, lastOp, sa, spaces>>

NextNonAtomic ==
    \/ \E t \in ThreadIds : NonAtomicCall(t)
    \/ \E t \in ThreadIds : NonAtomicValues(t)
    \/ \E t \in ThreadIds : NonAtomicLoadSize(t)
    \/ \E t \in ThreadIds : NonAtomicStoreSize(t)

SpecNonAtomic == InitNonAtomic /\ [][NextNonAtomic]_vars

\* ------------------------- emplaceBack and emplaceBackAtomic on a shared array

\* The threads are inside emplaceBackAtomic (they hold a previousSize), not
\* inside the non-atomic emplaceBack.
InAtomic == \A t \in ThreadIds : "previousSize" \in DOMAIN threads[t]

\* Either every thread calls emplaceBackAtomic, or every thread calls the
\* non-atomic emplaceBack.
InitSharedArray ==
    \/ InitAtomic
    \/ /\ InitNonAtomic
       /\ \A t \in ThreadIds : threads[t].op = "emplaceBack"

NextSharedArray ==
    \/ \E t \in ThreadIds : InAtomic /\ AtomicCall(t)
    \/ \E t \in ThreadIds : InAtomic /\ AtomicInc(t)
    \/ \E t \in ThreadIds : InAtomic /\ AtomicConstruct(t)
    \/ \E t \in ThreadIds : ~InAtomic /\ NonAtomicCall(t)
    \/ \E t \in ThreadIds : ~InAtomic /\ NonAtomicValues(t)
    \/ \E t \in ThreadIds : ~InAtomic /\ NonAtomicLoadSize(t)
    \/ \E t \in ThreadIds : ~InAtomic /\ NonAtomicStoreSize(t)

SpecSharedArray == InitSharedArray /\ [][NextSharedArray]_vars

\* ------------------------------- calls of the sortedArrayManipulation routines
\* The sorted sequence of the values of the set S.
ToSeq(S) ==
    [k \in 1..Cardinality(S) |-> CHOOSE x \in S : Cardinality({y \in S : y < x}) = k - 1]

\* The arrays the routines are given: sorted, without duplicates.
SortedArrays == {ToSeq(S) : S \in {T \in SUBSET SortedVals : Cardinality(T) <= MaxSortedSize}}

\* The batches the routines are given: sorted, duplicates allowed.
SortedBatches ==
    {s \in UNION {[1..n -> SortedVals] : n \in 0..MaxSortedBatch} :
        \A k \in 1..(Len(s) - 1) : s[k] <= s[k + 1]}

\* A sorted array, no routine called on it yet.
InitSorted ==
    /\ m_numArrays = 0
    /\ m_offsets = Empty0
    /\ m_sizes = Empty0
    /\ m_values = Empty0
    /\ fatal = FALSE
    /\ lastOp = NoCall
    /\ threads = <<>>
    /\ spaces = Allocated(FALSE)
    /\ \E a \in SortedArrays :
           sa = [op |-> "none", n |-> 0, ptr |-> ToBuf(a), size |-> Len(a),
                 before |-> a, values |-> <<>>, ret |-> 0, log |-> <<>>,
                 first |-> <<>>]

\* The state after a routine's call on the array sa holds: r is the routine's
\* outcome, values what it was given.
Called(name, values, r) ==
    [op |-> name, n |-> sa.n + 1, ptr |-> r.ptr, size |-> r.size,
     before |-> Run(sa.ptr, 0, sa.size), values |-> values, ret |-> r.ret, log |-> r.log,
     first |-> IF sa.n = 0 THEN <<>> ELSE <<[before |-> sa.before, values |-> sa.values,
                                             ret |-> sa.ret]>>]

\* insertSorted( ptr, size, values, nVals, callBacks ) on a fresh array.
InsertSorted(values) ==
    /\ sa.n = 0
    /\ sa' = Called("insertSorted", values,
                    insertSorted(sa.ptr, sa.size, ToBuf(values), Len(values), MAX_PRE_CALCULATED))
    /\ UNCHANGED <<aoaVars, threads, spaces>>

\* insertSorted with valuePositions and insertPositions of length CacheBound, so
\* that the values beyond them are reached.
InsertSortedSmallCache(values) ==
    /\ sa.n = 0
    /\ sa' = Called("insertSorted", values,
                    insertSorted(sa.ptr, sa.size, ToBuf(values), Len(values), CacheBound))
    /\ UNCHANGED <<aoaVars, threads, spaces>>

\* removeSorted( ptr, size, values, nVals, callBacks ) on a fresh array.
RemoveSorted(values) ==
    /\ sa.n = 0
    /\ sa' = Called("removeSorted", values,
                    removeSorted(sa.ptr, sa.size, ToBuf(values), Len(values)))
    /\ UNCHANGED <<aoaVars, threads, spaces>>

\* insert( ptr, size, value, callBacks ), on a fresh array or on the array a
\* first insert left.
Insert(value) ==
    /\ sa.n = 0 \/ (sa.n = 1 /\ sa.op = "insert")
    /\ sa' = Called("insert", <<value>>, insert(sa.ptr, sa.size, value))
    /\ UNCHANGED <<aoaVars, threads, spaces>>

NextSorted ==
    \/ \E values \in SortedBatches : InsertSorted(values)
    \/ \E values \in SortedBatches : InsertSortedSmallCache(values)
    \/ \E values \in SortedBatches : RemoveSorted(values)
    \/ \E value \in SortedVals : Insert(value)

SpecSorted == InitSorted /\ [][NextSorted]_vars

\* ------------------------------------------------- the search loop of find
\* find( ptr, size, value ) run one iteration of its while loop at a time, on
\* an array sorted under less, duplicates allowed.
findIteration_NoAdvance(ptr, lower, upper, value) ==
    LET guess == (lower + upper) \div 2 IN
    IF comp(ptr[guess], value)
    THEN [lower |-> guess, upper |-> upper]
    ELSE [lower |-> lower, upper |-> guess]

\* One iteration of the while loop of find: lower and upper after it.
findIteration(ptr, lower, upper, value) ==
    LET guess == (lower + upper) \div 2 IN
    IF comp(ptr[guess], value)
    THEN [lower |-> guess + 1, upper |-> upper]
    ELSE [lower |-> lower, upper |-> guess]

\* The call find( ptr, size, value ): lower = 0, upper = size.
InitFind ==
    /\ m_numArrays = 0
    /\ m_offsets = Empty0
    /\ m_sizes = Empty0
    /\ m_values = Empty0
    /\ fatal = FALSE
    /\ lastOp = NoCall
    /\ threads = <<>>
    /\ spaces = Allocated(FALSE)
    /\ \E a \in SortedBatches, value \in SortedVals :
           sa = [op |-> "find", pc |-> "loop", ptr |-> ToBuf(a), size |-> Len(a),
                 value |-> value, lower |-> 0, upper |-> Len(a), n |-> 0, ret |-> 0]

\* while( lower != upper ): one iteration; n counts the iterations.
FindIteration ==
    /\ sa.pc = "loop"
    /\ sa.lower # sa.upper
    /\ LET next == findIteration(sa.ptr, sa.lower, sa.upper, sa.value) IN
       sa' = [sa EXCEPT !.lower = next.lower, !.upper = next.upper, !.n = @ + 1]
    /\ UNCHANGED <<aoaVars, threads, spaces>>

\* return lower.
FindReturn ==
    /\ sa.pc = "loop"
    /\ sa.lower = sa.upper
    /\ sa' = [sa EXCEPT !.pc = "done", !.ret = sa.lower]
    /\ UNCHANGED <<aoaVars, threads, spaces>>

NextFind ==
    \/ FindIteration
    \/ FindReturn

SpecFind == InitFind /\ [][NextFind]_vars

\* ------------------------------------------------------ calls of makeSorted
\* The ranges makeSorted is given.
SortInputs == UNION {[1..n -> 1..MaxSortInputVal] : n \in 0..MaxSortInputLen}

\* No call of makeSorted yet.
InitSort ==
    /\ m_numArrays = 0
    /\ m_offsets = Empty0
    /\ m_sizes = Empty0
    /\ m_values = Empty0
    /\ fatal = FALSE
    /\ lastOp = NoCall
    /\ threads = <<>>
    /\ spaces = Allocated(FALSE)
    /\ sa = [op |-> "none", pc |-> "idle"]

\* makeSorted is called on a range, with a comparison.
MakeSortedBegin(c, input) ==
    /\ sa.pc = "idle"
    /\ sa' = makeSortedStart(c, ToBuf(input))
    /\ UNCHANGED <<aoaVars, threads, spaces>>

\* makeSorted chooses between introsortLoop and insertionSort, and goes on to
\* insertionSort when introsortLoop has returned.
MakeSorted ==
    /\ sa.pc = "call" \/ (sa.pc = "introsortLoop" /\ sa.ranges = <<>>)
    /\ sa' = makeSortedCall(sa)
    /\ UNCHANGED <<aoaVars, threads, spaces>>

\* One iteration of introsortLoop.
IntrosortLoop ==
    /\ sa.pc = "introsortLoop"
    /\ sa.ranges # <<>>
    /\ sa' = introsortLoopIteration(sa)
    /\ UNCHANGED <<aoaVars, threads, spaces>>

\* One iteration of insertionSort, or its return.
InsertionSort ==
    /\ sa.pc = "insertionSort"
    /\ sa' = insertionSortIteration(sa)
    /\ UNCHANGED <<aoaVars, threads, spaces>>

NextSort ==
    \/ \E c \in Comparators, input \in SortInputs : MakeSortedBegin(c, input)
    \/ MakeSorted
    \/ IntrosortLoop
    \/ InsertionSort

\* The call is alone in its thread and goes on running until it returns.
SpecSort == InitSort /\ [][NextSort]_vars /\ WF_vars(NextSort)

\* ------------------------------------- calls of the batched insert and remove
\* The arrays the batched routines are given: sorted, without duplicates.
UnsortedArrays == {ToSeq(S) : S \in SUBSET (1..MaxUnsortedVal)}

\* The batches they are given: in any order, duplicates allowed.
UnsortedBatches == UNION {[1..n -> 1..MaxUnsortedVal] : n \in 0..MaxUnsortedBatch}

\* A sorted array, no routine called on it yet.
InitBatch ==
    /\ m_numArrays = 0
    /\ m_offsets = Empty0
    /\ m_sizes = Empty0
    /\ m_values = Empty0
    /\ fatal = FALSE
    /\ lastOp = NoCall
    /\ threads = <<>>
    /\ spaces = Allocated(FALSE)
    /\ \E a \in UnsortedArrays :
           sa = [op |-> "none", ptr |-> ToBuf(a), size |-> Len(a), before |-> a,
                 values |-> <<>>, N |-> 0]

\* The state after a batched call: r is its outcome, values what it was given
\* and N the length of its localBuffer.
BatchCalled(name, values, N, r) ==
    [op |-> name, ptr |-> r.ptr, size |-> r.size, before |-> sa.before, values |-> values,
     N |-> N, ret |-> r.ret, log |-> r.log, buffer |-> r.buffer, mem |-> r.mem]

\* insert( ptr, size, values, nVals, callBacks )
InsertValues(values) ==
    /\ sa.op = "none"
    /\ sa' = BatchCalled("insert", values, LOCAL_SIZE,
                         insertValues(sa.ptr, sa.size, ToBuf(values), Len(values), LOCAL_SIZE))
    /\ UNCHANGED <<aoaVars, threads, spaces>>

\* insert with a localBuffer of LocalBound cells, so that batches longer than
\* it are reached.
InsertValuesSmallLocal(values) ==
    /\ sa.op = "none"
    /\ sa' = BatchCalled("insert", values, LocalBound,
                         insertValues(sa.ptr, sa.size, ToBuf(values), Len(values), LocalBound))
    /\ UNCHANGED <<aoaVars, threads, spaces>>

\* remove( ptr, size, values, nVals, callBacks )
RemoveValues(values) ==
    /\ sa.op = "none"
    /\ sa' = BatchCalled("remove", values, LOCAL_SIZE,
                         removeValues(sa.ptr, sa.size, ToBuf(values), Len(values), LOCAL_SIZE))
    /\ UNCHANGED <<aoaVars, threads, spaces>>

\* remove with a localBuffer of LocalBound cells.
RemoveValuesSmallLocal(values) ==
    /\ sa.op = "none"
    /\ sa' = BatchCalled("remove", values, LocalBound,
                         removeValues(sa.ptr, sa.size, ToBuf(values), Len(values), LocalBound))
    /\ UNCHANGED <<aoaVars, threads, spaces>>

NextBatch ==
    \/ \E values \in UnsortedBatches : InsertValues(values)
    \/ \E values \in UnsortedBatches : InsertValuesSmallLocal(values)
    \/ \E values \in UnsortedBatches : RemoveValues(values)
    \/ \E values \in UnsortedBatches : RemoveValuesSmallLocal(values)

SpecBatch == InitBatch /\ [][NextBatch]_vars

\* ------------------------------------------------------------ calls of move
\* A container as setEqualTo leaves it, in a build with or without USE_CUDA, on
\* which move is called again and again.
InitMove ==
    /\ \E src \in Sources :
           /\ src.numArrays >= 1
           /\ m_numArrays = src.numArrays
           /\ m_offsets = src.offsets
           /\ m_sizes = src.sizes
           /\ m_values = src.values
    /\ fatal = FALSE
    /\ lastOp = NoCall
    /\ threads = <<>>
    /\ sa = <<>>
    /\ \E cuda \in BOOLEAN : spaces = Allocated(cuda)

moveOffsetsTouch_CallersFlag(space, touch) == touch

\* The touch flag move hands to m_offsets.move: under USE_CUDA, false when the
\* space is the GPU.
moveOffsetsTouch(space, touch) ==
    IF spaces.USE_CUDA /\ space = "GPU" THEN FALSE ELSE touch

\* move( space, touch )
Move(space, touch) ==
    /\ space = "GPU" => spaces.USE_CUDA
    /\ spaces' = [spaces EXCEPT
                     !.m_values = bufMove(@, space, touch),
                     !.m_sizes = bufMove(@, space, touch),
                     !.m_offsets = bufMove(@, space, moveOffsetsTouch(space, touch)),
                     !.log = << [buffer |-> "m_values", space |-> space, touch |-> touch],
                                [buffer |-> "m_sizes", space |-> space, touch |-> touch],
                                [buffer |-> "m_offsets", space |-> space,
                                 touch |-> moveOffsetsTouch(space, touch)] >>]
    /\ UNCHANGED <<aoaVars, threads, sa>>

NextMove == \E space \in MemorySpaces, touch \in BOOLEAN : Move(space, touch)

SpecMove == InitMove /\ [][NextMove]_vars

\* --------------------------------------------------- calls of the accessors
\* A container as setEqualTo leaves it, on which one accessor is called.
InitAccess ==
    /\ \E src \in Sources :
           /\ m_numArrays = src.numArrays
           /\ m_offsets = src.offsets
           /\ m_sizes = src.sizes
           /\ m_values = src.values
    /\ fatal = FALSE
    /\ lastOp = NoCall
    /\ threads = <<>>
    /\ sa = <<>>
    /\ spaces = Allocated(FALSE)

\* The indices the accessors are called with: some below 0, some past the end.
AccessArrays == (0 - 1)..MaxSrcArrays

AccessPositions == (0 - 1)..MaxSrcOffset

\* The call of an accessor: what it was given and what it returned.
Access(name, i, j, ret) == [op |-> name, i |-> i, j |-> j, k |-> ret]

\* An accessor's bounds check fired.
AccessFatal(name, i, j) ==
    /\ fatal' = TRUE
    /\ lastOp' = Access(name, i, j, 0)

\* sizeOfArray( i )
SizeOfArray(i) ==
    /\ Running
    /\ IF ~CheckBounds(i) THEN AccessFatal("sizeOfArray", i, 0)
       ELSE lastOp' = Access("sizeOfArray", i, 0, m_sizes[i]) /\ UNCHANGED fatal
    /\ UNCHANGED <<m_numArrays, m_offsets, m_sizes, m_values, threads, sa, spaces>>

\* capacityOfArray( i )
CapacityOfArray(i) ==
    /\ Running
    /\ IF ~CheckBounds(i) THEN AccessFatal("capacityOfArray", i, 0)
       ELSE /\ lastOp' = Access("capacityOfArray", i, 0, m_offsets[i + 1] - m_offsets[i])
            /\ UNCHANGED fatal
    /\ UNCHANGED <<m_numArrays, m_offsets, m_sizes, m_values, threads, sa, spaces>>

\* operator[]( i ): the slice that starts at m_values.data() + m_offsets[i] and
\* has the size m_sizes[i].
Subscript(i) ==
    /\ Running
    /\ IF ~CheckBounds(i) THEN AccessFatal("operator[]", i, 0)
       ELSE /\ lastOp' = Access("operator[]", i, 0,
                                [data |-> m_offsets[i], size |-> m_sizes[i]])
            /\ UNCHANGED fatal
    /\ UNCHANGED <<m_numArrays, m_offsets, m_sizes, m_values, threads, sa, spaces>>

\* operator()( i, j )
Call(i, j) ==
    /\ Running
    /\ IF ~CheckBounds2(i, j) THEN AccessFatal("operator()", i, j)
       ELSE lastOp' = Access("operator()", i, j, m_values[m_offsets[i] + j]) /\ UNCHANGED fatal
    /\ UNCHANGED <<m_numArrays, m_offsets, m_sizes, m_values, threads, sa, spaces>>

NextAccess ==
    \/ \E i \in AccessArrays : SizeOfArray(i)
    \/ \E i \in AccessArrays : CapacityOfArray(i)
    \/ \E i \in AccessArrays : Subscript(i)
    \/ \E i \in AccessArrays, j \in AccessPositions : Call(i, j)

SpecAccess == InitAccess /\ [][NextAccess]_vars

\* ----------------------------------- calls of eraseFromArray with any count

EraseCounts == (0 - 1)..(MaxSrcOffset + 1)

EraseCall(i, j, n, k) == [op |-> "eraseFromArray", i |-> i, j |-> j, n |-> n, k |-> k]

InitErase ==
    /\ \E src \in Sources :
           /\ m_numArrays = src.numArrays
           /\ m_offsets = src.offsets
           /\ m_sizes = src.sizes
           /\ m_values = src.values
    /\ fatal = FALSE
    /\ lastOp = NoCall
    /\ threads = <<>>
    /\ sa = <<>>
    /\ spaces = Allocated(FALSE)

\* eraseFromArray( i, j, n ) for any i, j and n: the only check of the view is
\* ARRAYOFARRAYS_CHECK_BOUNDS2( i, j ); k: the size of sub-array i before the
\* call. One call is followed per behaviour.
EraseFromArrayAnyCount(i, j, n) ==
    /\ Running
    /\ UNCHANGED <<m_numArrays, m_offsets, threads, sa, spaces>>
    /\ IF ~CheckBounds2(i, j)
       THEN /\ fatal' = TRUE
            /\ lastOp' = EraseCall(i, j, n, 0)
            /\ UNCHANGED <<m_sizes, m_values>>
       ELSE /\ m_values' = amEraseAnyCount(m_values, m_offsets[i], sizeOfArray(i), j, n)
            /\ m_sizes' = [m_sizes EXCEPT ![i] = @ - n]
            /\ lastOp' = EraseCall(i, j, n, sizeOfArray(i))
            /\ UNCHANGED fatal

NextErase ==
    \E i \in AccessArrays, j \in AccessPositions, n \in EraseCounts :
        EraseFromArrayAnyCount(i, j, n)

SpecErase == InitErase /\ [][NextErase]_vars

\* ------------------------------------------------ calls of integer_conversion
\* The integer types: signed or unsigned, of CharBits, IntBits or LongBits
\* bits; int is the signed type of IntBits bits.
IntegerTypes == {[signed |-> s, bits |-> b] : s \in BOOLEAN, b \in {CharBits, IntBits, LongBits}}

\* std::numeric_limits< T >::max() and lowest().
numericMax(T) == IF T.signed THEN 2^(T.bits - 1) - 1 ELSE 2^T.bits - 1

numericLowest(T) == IF T.signed THEN 0 - 2^(T.bits - 1) ELSE 0

\* The values of the type T.
ValuesOf(T) == numericLowest(T)..numericMax(T)

\* static_cast< T >( x ): x modulo 2^bits, taken into the range of T.
staticCast(T, x) ==
    LET m == x % 2^T.bits IN
    IF T.signed /\ m > numericMax(T) THEN m - 2^T.bits ELSE m

\* std::make_unsigned< T >::type
makeUnsigned(T) == [signed |-> FALSE, bits |-> T.bits]

\* Integral promotion: a type narrower than int becomes int.
promote(T) == IF T.bits < IntBits THEN [signed |-> TRUE, bits |-> IntBits] ELSE T

\* The usual arithmetic conversions: the type in which a comparison of an A
\* with a B is made.
commonType(A, B) ==
    LET a == promote(A)
        b == promote(B)
    IN  IF a.signed = b.signed THEN (IF a.bits >= b.bits THEN a ELSE b)
        ELSE LET u == IF a.signed THEN b ELSE a
                 s == IF a.signed THEN a ELSE b
             IN  IF u.bits >= s.bits THEN u ELSE s

\* x > y and x < y for x of type A and y of type B.
greater(A, x, B, y) ==
    staticCast(commonType(A, B), x) > staticCast(commonType(A, B), y)

less(A, x, B, y) ==
    staticCast(commonType(A, B), x) < staticCast(commonType(A, B), y)

\* The LVARRAY_ERROR_IF conditions of the three overloads.
unsignedToSignedLoses(RTYPE, T, input) ==
    greater(T, input, RTYPE, numericMax(RTYPE))

signedToUnsignedLoses_NoSignCheck(RTYPE, T, input) ==
    greater(makeUnsigned(T), staticCast(makeUnsigned(T), input), RTYPE, numericMax(RTYPE))

signedToUnsignedLoses(RTYPE, T, input) ==
    \/ less(T, input, [signed |-> TRUE, bits |-> IntBits], 0)
    \/ greater(makeUnsigned(T), staticCast(makeUnsigned(T), input), RTYPE, numericMax(RTYPE))

sameSignednessLoses(RTYPE, T, input) ==
    \/ greater(T, input, RTYPE, numericMax(RTYPE))
    \/ T.signed /\ less(T, input, RTYPE, numericLowest(RTYPE))

\* integer_conversion< RTYPE >( input ) for input of type T: the overload that
\* std::enable_if selects; fatal when its LVARRAY_ERROR_IF fires, else the
\* value of static_cast< RTYPE >( input ).
integer_conversion(RTYPE, T, input) ==
    LET loses == IF ~T.signed /\ RTYPE.signed THEN unsignedToSignedLoses(RTYPE, T, input)
                 ELSE IF T.signed /\ ~RTYPE.signed THEN signedToUnsignedLoses(RTYPE, T, input)
                 ELSE sameSignednessLoses(RTYPE, T, input)
    IN  [fatal |-> loses, ret |-> staticCast(RTYPE, input)]

\* No call of integer_conversion made yet.
InitConversion ==
    /\ m_numArrays = 0
    /\ m_offsets = Empty0
    /\ m_sizes = Empty0
    /\ m_values = Empty0
    /\ fatal = FALSE
    /\ lastOp = NoCall
    /\ threads = <<>>
    /\ sa = <<>>
    /\ spaces = Allocated(FALSE)

\* integer_conversion< RTYPE >( input ); i: the input, k: the value returned.
IntegerConversion(RTYPE, T, input) ==
    /\ ~fatal
    /\ LET r == integer_conversion(RTYPE, T, input) IN
       /\ fatal' = r.fatal
       /\ lastOp' = [op |-> "integer_conversion", RTYPE |-> RTYPE, T |-> T, i |-> input,
                     k |-> IF r.fatal THEN 0 ELSE r.ret]
    /\ UNCHANGED <<m_numArrays, m_offsets, m_sizes, m_values, threads, sa, spaces>>

NextConversion ==
    \E RTYPE \in IntegerTypes, T \in IntegerTypes :
        \E input \in ValuesOf(T) : IntegerConversion(RTYPE, T, input)

SpecConversion == InitConversion /\ [][NextConversion]_vars

LiveRange(i) == m_offsets[i]..(m_offsets[i] + m_sizes[i] - 1)

\* The representation the header documents (ArrayOfArraysView.hpp, m_offsets,
\* m_sizes, m_values): the buffers have the documented lengths, exactly the live
\* slots hold a constructed value, and the value buffer covers every offset.
WellFormed ==
    ~fatal =>
        /\ m_numArrays \in 0..MaxArrays
        /\ DOMAIN m_sizes = 0..(m_numArrays - 1)
        /\ m_numArrays > 0 => DOMAIN m_offsets = 0..m_numArrays
        /\ m_numArrays > 0 => m_offsets[m_numArrays] <= valueCapacity
        /\ \A i \in 0..(m_numArrays - 1) : \A k \in LiveRange(i) :
              k \in DOMAIN m_values /\ m_values[k] # Uninit

C4_FullAppendIsFatal ==
    [][ ( /\ lastOp'.op \in {"emplaceBack", "emplace"}
          /\ CheckBounds(lastOp'.i)
          /\ sizeOfArray(lastOp'.i) = capacityOfArray(lastOp'.i) )
        => ( /\ fatal'
             /\ m_numArrays' = m_numArrays
             /\ m_offsets' = m_offsets
             /\ m_sizes' = m_sizes
             /\ m_values' = m_values ) ]_vars

\* C4's case: emplaceBack was called on a full sub-array that holds a value.
C4_Witness ==
    /\ fatal
    /\ lastOp.op = "emplaceBack"
    /\ CheckBounds(lastOp.i)
    /\ sizeOfArray(lastOp.i) = capacityOfArray(lastOp.i)
    /\ capacityOfArray(lastOp.i) > 0

\* The number of live values: the sum of the sizes of the first n sub-arrays.
RECURSIVE SumSizes(_)
SumSizes(n) == IF n = 0 THEN 0 ELSE SumSizes(n - 1) + m_sizes[n - 1]

\* The number of slots of the value buffer that hold a constructed value.
ConstructedCount == Cardinality({k \in DOMAIN m_values : m_values[k] # Uninit})

\* C5: compress() leaves size(), every sizeOfArray(i) and the ordered live
\* values of every sub-array as they were, and so the number of live values.
C5_CompressPreservesContent ==
    [][ lastOp'.op = "compress"
        => ( /\ m_numArrays' = m_numArrays
             /\ m_sizes' = m_sizes
             /\ \A i \in 0..(m_numArrays - 1) : ArrayOf(i)' = ArrayOf(i)
             /\ SumSizes(m_numArrays)' = SumSizes(m_numArrays) ) ]_vars

\* C5's case: compress() has moved the last sub-array, which is not empty, down.
C5_Witness ==
    /\ lastOp.op = "compress"
    /\ lastOp.i > 0
    /\ m_numArrays >= 2
    /\ sizeOfArray(m_numArrays - 1) > 0

\* C6: after compress() on a populated container every capacity equals the
\* size, m_offsets[0] is as before, m_offsets[size()] is m_offsets[0] plus the
\* number of live values, and the value buffer's capacity is not smaller.
C6_CompressLeavesNoSlack ==
    [][ (lastOp'.op = "compress" /\ m_numArrays > 0)
        => ( /\ \A i \in 0..(m_numArrays - 1) :
                   m_offsets'[i + 1] - m_offsets'[i] = m_sizes'[i]
             /\ m_offsets'[0] = m_offsets[0]
             /\ m_offsets'[m_numArrays'] = m_offsets'[0] + SumSizes(m_numArrays)'
             /\ Cap(m_values') >= valueCapacity ) ]_vars

\* C6's case: compress() has removed capacity from a container that holds a
\* value, and the value buffer is now larger than the last offset.
C6_Witness ==
    /\ lastOp.op = "compress"
    /\ lastOp.k > 0
    /\ m_numArrays >= 2
    /\ SumSizes(m_numArrays) > 0
    /\ valueCapacity > m_offsets[m_numArrays]
\* The number of entries of the sequence s that equal v.
CountIn(s, v) == Cardinality({k \in DOMAIN s : s[k] = v})

\* Every thread has returned from emplaceBackAtomic.
AllDone == \A t \in ThreadIds : threads[t].pc = "done"

\* C3: when the NumThreads threads appending to the empty sub-array i have all
\* returned and the capacity of i is at least NumThreads, sizeOfArray( i ) is
\* NumThreads, the sub-array holds the threads' values, each as many times as
\* threads were given it, each thread's value is at the position the thread
\* claimed and no two threads claimed the same position; and with that capacity
\* no interleaving ends in the fatal error.
C3_AtomicAppend ==
    \A i \in 0..(m_numArrays - 1) :
        ( /\ \A t \in ThreadIds : threads[t].i = i
          /\ capacityOfArray(i) >= NumThreads )
        => /\ ~fatal
           /\ AllDone =>
                /\ sizeOfArray(i) = NumThreads
                /\ \A v \in Vals :
                       CountIn(ArrayOf(i), v) = CountIn([t \in ThreadIds |-> threads[t].v], v)
                /\ \A t \in ThreadIds :
                       /\ threads[t].previousSize \in 0..(NumThreads - 1)
                       /\ m_values[m_offsets[i] + threads[t].previousSize] = threads[t].v
                /\ \A t, u \in ThreadIds :
                       t # u => threads[t].previousSize # threads[u].previousSize

\* C3's case: all threads have returned, the capacity sufficed, and a thread
\* with a larger id claimed a lower position than a thread given another value.
C3_Witness ==
    /\ threads # <<>>
    /\ ~fatal
    /\ AllDone
    /\ capacityOfArray(threads[1].i) >= NumThreads
    /\ \E t, u \in ThreadIds :
           /\ t < u
           /\ threads[t].previousSize > threads[u].previousSize
           /\ threads[t].v # threads[u].v
\* The values of the sequence s.
Range(s) == {s[k] : k \in DOMAIN s}

IsStrictlySorted(s) == \A k \in 1..(Len(s) - 1) : s[k] < s[k + 1]

\* The array a sortedArrayManipulation routine left, at the size its owner has.
Result == Run(sa.ptr, 0, sa.size)

\* C7: insertSorted on a sorted duplicate-free array (the empty one too) and a
\* sorted batch returns the number of distinct batch values that were not in
\* the array, the size grows by that number, and the array is then strictly
\* increasing and holds exactly the values of the array and of the batch.
C7_InsertSorted ==
    sa.op = "insertSorted"
    => /\ sa.ret = Cardinality(Range(sa.values) \ Range(sa.before))
       /\ sa.size = Len(sa.before) + sa.ret
       /\ IsStrictlySorted(Result)
       /\ Range(Result) = Range(sa.before) \cup Range(sa.values)

\* C7's case: a batch with a value already in the array and two that are not,
\* one of them falling between the array's first and last values.
C7_Witness ==
    /\ sa # <<>>
    /\ sa.op = "insertSorted"
    /\ Len(sa.before) >= 2
    /\ sa.ret >= 2
    /\ Range(sa.values) \cap Range(sa.before) # {}
    /\ \E v \in Range(sa.values) \ Range(sa.before) :
           sa.before[1] < v /\ v < sa.before[Len(sa.before)]

\* C8: removeSorted on a sorted duplicate-free array and a sorted batch returns
\* the number of distinct batch values that were in the array, and the first
\* size - returned entries are the array's values that are not in the batch, in
\* their order.
C8_RemoveSorted ==
    sa.op = "removeSorted"
    => /\ sa.ret = Cardinality(Range(sa.values) \cap Range(sa.before))
       /\ Run(sa.ptr, 0, Len(sa.before) - sa.ret)
              = SelectSeq(sa.before, LAMBDA x : x \notin Range(sa.values))

\* C8's case: a batch whose first value is smaller than every value of the
\* array, two values removed and a value kept between them.
C8_Witness ==
    /\ sa # <<>>
    /\ sa.op = "removeSorted"
    /\ sa.ret >= 2
    /\ sa.values[1] < sa.before[1]
    /\ \E k \in 2..(Len(sa.before) - 1) :
           /\ sa.before[k] \notin Range(sa.values)
           /\ sa.before[k - 1] \in Range(sa.values)
           /\ sa.before[k + 1] \in Range(sa.values)

\* C9: the single-value insert of a value the array holds returns false, calls
\* incrementSize( 0 ) and nothing else on the callbacks, and leaves the array
\* and its size as they were; the second of two inserts of one value in a row
\* returns false and the array holds the value once.
C9_InsertPresent ==
    /\ (sa.op = "insert" /\ sa.values[1] \in Range(sa.before))
       => /\ sa.ret = FALSE
          /\ sa.log = <<CB("incrementSize", <<0>>)>>
          /\ Result = sa.before
          /\ sa.size = Len(sa.before)
    /\ (sa.op = "insert" /\ sa.n = 2 /\ sa.first[1].values = sa.values)
       => /\ sa.ret = FALSE
          /\ sa.size = Len(sa.first[1].before) + (IF sa.first[1].ret THEN 1 ELSE 0)
          /\ Cardinality({k \in DOMAIN Result : Result[k] = sa.values[1]}) = 1

\* C9's case: the same value inserted twice in a row into an array of two or
\* more values that did not hold it.
C9_Witness ==
    /\ sa # <<>>
    /\ sa.op = "insert"
    /\ sa.n = 2
    /\ sa.first[1].values = sa.values
    /\ sa.first[1].ret = TRUE
    /\ Len(sa.first[1].before) >= 2

\* The index of the first value of s that is not less than v, from 0.
LowerBound(s, v) == Cardinality({k \in DOMAIN s : s[k] < v})

\* The sequence s with v put before its entry of index pos, from 0.
InsertAt(s, pos, v) == SubSeq(s, 1, pos) \o <<v>> \o SubSeq(s, pos + 1, Len(s))

\* C10: the single-value insert of a value the array does not hold returns
\* true, calls incrementSize( 1 ) and then insert( pos ) with pos the lower
\* bound of the value, and leaves the array with the value put at pos, sorted
\* and one longer.
C10_InsertAbsent ==
    (sa.op = "insert" /\ sa.values[1] \notin Range(sa.before))
    => LET pos == LowerBound(sa.before, sa.values[1]) IN
       /\ sa.ret = TRUE
       /\ sa.log = <<CB("incrementSize", <<1>>), CB("insert", <<pos>>)>>
       /\ sa.size = Len(sa.before) + 1
       /\ Result = InsertAt(sa.before, pos, sa.values[1])
       /\ IsStrictlySorted(Result)

\* C10's case: a value inserted between the first and the last value of the
\* array, the path of the binary search.
C10_Witness ==
    /\ sa # <<>>
    /\ sa.op = "insert"
    /\ sa.ret = TRUE
    /\ sa.before # <<>>
    /\ sa.before[1] < sa.values[1]
    /\ sa.values[1] < sa.before[Len(sa.before)]

\* C11: emplaceBack( i, v ) on a sub-array i with size below capacity leaves
\* sub-array i as its previous values followed by v, and leaves size(), every
\* offset and the size and values of every other sub-array as they were.
C11_EmplaceBackEffect ==
    [][ \A i \in 0..MaxArrays, v \in Vals :
          (EmplaceBack(i, v) /\ CheckBounds(i) /\ sizeOfArray(i) < capacityOfArray(i))
          => ( /\ ~fatal'
               /\ ArrayOf(i)' = Append(ArrayOf(i), v)
               /\ m_sizes'[i] = m_sizes[i] + 1
               /\ m_numArrays' = m_numArrays
               /\ m_offsets' = m_offsets
               /\ \A k \in 0..(m_numArrays - 1) :
                      k # i => m_sizes'[k] = m_sizes[k] /\ ArrayOf(k)' = ArrayOf(k) ) ]_vars

\* C11's case: emplaceBack appended a second, different value to a sub-array of
\* a container of two.
C11_Witness ==
    /\ ~fatal
    /\ lastOp.op = "emplaceBack"
    /\ lastOp.k >= 1
    /\ m_numArrays >= 2
    /\ sizeOfArray(lastOp.i) = lastOp.k + 1
    /\ ArrayOf(lastOp.i)[lastOp.k] # ArrayOf(lastOp.i)[lastOp.k + 1]

\* C12: eraseFromArray( i, j, n ) with 0 <= j < sizeOfArray( i ), n >= 0 and
\* j + n <= sizeOfArray( i ) leaves sub-array i as its previous values without
\* those at the positions [j, j + n), in their order, n shorter, and leaves
\* size(), every offset, so every capacity, and every other sub-array as they were.
C12_EraseFromArrayEffect ==
    [][ \A i \in 0..MaxArrays, j \in 0..MaxOffset, n \in 0..MaxOffset :
          (EraseFromArray(i, j, n) /\ CheckBounds2(i, j) /\ j + n <= sizeOfArray(i))
          => ( /\ ~fatal'
               /\ ArrayOf(i)' = SubSeq(ArrayOf(i), 1, j)
                                   \o SubSeq(ArrayOf(i), j + n + 1, sizeOfArray(i))
               /\ m_sizes'[i] = m_sizes[i] - n
               /\ m_numArrays' = m_numArrays
               /\ m_offsets' = m_offsets
               /\ \A k \in 0..(m_numArrays - 1) :
                      k # i => m_sizes'[k] = m_sizes[k] /\ ArrayOf(k)' = ArrayOf(k) ) ]_vars

\* C12's case: eraseFromArray removed a value of a sub-array and a value of it
\* remains.
C12_Witness ==
    /\ ~fatal
    /\ lastOp.op = "eraseFromArray"
    /\ CheckBounds(lastOp.i)
    /\ lastOp.k > sizeOfArray(lastOp.i)
    /\ sizeOfArray(lastOp.i) >= 1

\* C13: resizeFromCapacities( n, caps ) with no negative capacity, from any
\* state, leaves size() = n, m_offsets[0] = 0, each m_offsets[k + 1] the sum of
\* caps[0..k], so each capacity caps[k], and every size 0.
C13_ResizeFromCapacities ==
    [][ \A n \in 0..MaxArrays : \A caps \in [0..(n - 1) -> 0..MaxOffset] :
          ResizeFromCapacities(n, caps)
          => ( /\ ~fatal'
               /\ m_numArrays' = n
               /\ m_offsets'[0] = 0
               /\ \A k \in 0..(n - 1) :
                      /\ m_offsets'[k + 1] - m_offsets'[k] = caps[k]
                      /\ m_sizes'[k] = 0
               /\ DOMAIN m_sizes' = 0..(n - 1) ) ]_vars

\* C13's case: resizeFromCapacities gave two sub-arrays, the second with
\* capacity, to a container that held sub-arrays and a value before.
C13_Witness ==
    /\ ~fatal
    /\ lastOp.op = "resizeFromCapacities"
    /\ lastOp.k >= 1
    /\ m_numArrays >= 2
    /\ capacityOfArray(1) > 0
    /\ \E k \in DOMAIN m_values : m_values[k] # Uninit

\* The smaller of two numbers.
Smaller(a, b) == IF a <= b THEN a ELSE b

\* C14: setCapacityOfArray( i, newCapacity ) leaves capacityOfArray( i ) equal
\* to newCapacity, sizeOfArray( i ) the smaller of the previous size and
\* newCapacity, and the values of sub-array i the previous ones up to that size,
\* in order; when values are cut off and no later sub-array holds a value, the
\* slots of the values cut off hold no value afterwards and no other slot has
\* changed.
C14_SetCapacityOfArray ==
    [][ \A i \in 0..MaxArrays, c \in 0..MaxOffset :
          (SetCapacityOfArray(i, c) /\ CheckBounds(i))
          => LET newSize == Smaller(m_sizes[i], c) IN
             /\ ~fatal'
             /\ m_offsets'[i + 1] - m_offsets'[i] = c
             /\ m_sizes'[i] = newSize
             /\ ArrayOf(i)' = SubSeq(ArrayOf(i), 1, newSize)
             /\ (/\ c < m_sizes[i]
                 /\ \A a \in (i + 1)..(m_numArrays - 1) : m_sizes[a] = 0)
                => /\ \A k \in (m_offsets[i] + newSize)..(m_offsets[i] + m_sizes[i] - 1) :
                          m_values'[k] = Uninit
                   /\ \A k \in DOMAIN m_values :
                          k \notin (m_offsets[i] + newSize)..(m_offsets[i] + m_sizes[i] - 1)
                          => m_values'[k] = m_values[k] ]_vars

\* C14's case: setCapacityOfArray lowered the capacity of a sub-array that is
\* not the last one below its size, and values are left in it.
C14_Witness ==
    /\ ~fatal
    /\ lastOp.op = "setCapacityOfArray"
    /\ CheckBounds(lastOp.i)
    /\ lastOp.i < m_numArrays - 1
    /\ lastOp.k > capacityOfArray(lastOp.i)
    /\ sizeOfArray(lastOp.i) = capacityOfArray(lastOp.i)
    /\ sizeOfArray(lastOp.i) >= 1

\* C15: setCapacityOfArray( i, newCapacity ) leaves size() and, for every other
\* sub-array, its size, capacity and values as they were; the offsets up to
\* m_offsets[i] are as before and every later one, the last included, has moved
\* by newCapacity less the previous capacity.
C15_SetCapacityOfArrayFrame ==
    [][ \A i \in 0..MaxArrays, c \in 0..MaxOffset :
          (SetCapacityOfArray(i, c) /\ CheckBounds(i))
          => LET oldCapacity == m_offsets[i + 1] - m_offsets[i] IN
             /\ m_numArrays' = m_numArrays
             /\ \A k \in 0..(m_numArrays - 1) :
                    k # i => /\ m_sizes'[k] = m_sizes[k]
                             /\ m_offsets'[k + 1] - m_offsets'[k] = m_offsets[k + 1] - m_offsets[k]
                             /\ ArrayOf(k)' = ArrayOf(k)
             /\ \A k \in 0..i : m_offsets'[k] = m_offsets[k]
             /\ \A k \in (i + 1)..m_numArrays :
                    m_offsets'[k] = m_offsets[k] + c - oldCapacity ]_vars

\* C15's case: setCapacityOfArray raised the capacity of a sub-array that is
\* followed by a sub-array holding a value.
C15_Witness ==
    /\ ~fatal
    /\ lastOp.op = "setCapacityOfArray"
    /\ CheckBounds(lastOp.i)
    /\ lastOp.i < m_numArrays - 1
    /\ lastOp.k < capacityOfArray(lastOp.i)
    /\ sizeOfArray(lastOp.i + 1) > 0

\* C16: resize( newSize, defaultArrayCapacity ) with newSize above size() leaves
\* size() equal to newSize, and every new sub-array has size 0, capacity
\* defaultArrayCapacity and an offset that continues from the previous last
\* offset, or from 0 when there was no sub-array, in steps of
\* defaultArrayCapacity.
C16_ResizeGrowth ==
    [][ \A newSize \in 0..MaxArrays, c \in 0..MaxOffset :
          (Resize(newSize, c) /\ newSize > m_numArrays)
          => LET lastOffset == IF m_numArrays = 0 THEN 0 ELSE m_offsets[m_numArrays] IN
             /\ ~fatal'
             /\ m_numArrays' = newSize
             /\ DOMAIN m_sizes' = 0..(newSize - 1)
             /\ \A k \in m_numArrays..(newSize - 1) :
                    /\ m_sizes'[k] = 0
                    /\ m_offsets'[k] = lastOffset + (k - m_numArrays) * c
                    /\ m_offsets'[k + 1] - m_offsets'[k] = c
             /\ Cap(m_values') >= m_offsets'[newSize] ]_vars

\* C16's case: resize added a sub-array with room for a value behind a
\* sub-array that has room for a value.
C16_Witness ==
    /\ ~fatal
    /\ lastOp.op = "resize"
    /\ lastOp.k >= 1
    /\ lastOp.i > lastOp.k
    /\ m_numArrays = lastOp.i
    /\ m_offsets[lastOp.k] > 0
    /\ capacityOfArray(lastOp.k) > 0
    /\ sizeOfArray(lastOp.k) = 0

\* The sub-arrays below n keep their offset, size, capacity and values over the
\* step.
RetainedUnchanged(n) ==
    \A k \in 0..(n - 1) :
        /\ m_offsets'[k] = m_offsets[k]
        /\ m_sizes'[k] = m_sizes[k]
        /\ m_offsets'[k + 1] - m_offsets'[k] = m_offsets[k + 1] - m_offsets[k]
        /\ ArrayOf(k)' = ArrayOf(k)

\* The slots of the values of sub-arrays begin..end-1 hold no value after the
\* step.
DestroyedAfter(begin, end) ==
    \A k \in begin..(end - 1) :
        \A s \in m_offsets[k]..(m_offsets[k] + m_sizes[k] - 1) :
            m_values'[s] = Uninit

\* C17: resize( newSize, c ) leaves every sub-array below both the previous and
\* the new size() unchanged in offset, size, capacity and values, and on
\* shrinking the values of the removed sub-arrays are destroyed.
C17_ResizeFrame ==
    [][ \A newSize \in 0..MaxArrays, c \in 0..MaxOffset :
          Resize(newSize, c)
          => /\ RetainedUnchanged(Smaller(m_numArrays, newSize))
             /\ newSize < m_numArrays => DestroyedAfter(newSize, m_numArrays) ]_vars

\* The values of sub-array i of the source src, in order.
SrcArrayOf(src, i) ==
    [j \in 1..src.sizes[i] |-> src.values[src.offsets[i] + j - 1]]

\* The slots that hold a live value of the source src.
SrcLive(src) ==
    {s \in 0..(src.offsets[src.numArrays] - 1) :
        \E a \in 0..(src.numArrays - 1) :
            src.offsets[a] <= s /\ s < src.offsets[a] + src.sizes[a]}

\* C19: setEqualTo leaves the destination with the size() of the source and,
\* for every sub-array, the offset, size, capacity and values of the source,
\* whatever the destination held; the values the destination held were
\* destroyed, so a slot that held one and receives no value of the source holds
\* no value afterwards.
C19_SetEqualTo ==
    [][ \A src \in Sources :
          SetEqualTo(src)
          => /\ ~fatal'
             /\ m_numArrays' = src.numArrays
             /\ \A i \in 0..(src.numArrays - 1) :
                    /\ m_offsets'[i] = src.offsets[i]
                    /\ m_offsets'[i + 1] = src.offsets[i + 1]
                    /\ m_sizes'[i] = src.sizes[i]
                    /\ ArrayOf(i)' = SrcArrayOf(src, i)
             /\ \A k \in 0..(m_numArrays - 1) :
                    \A s \in m_offsets[k]..(m_offsets[k] + m_sizes[k] - 1) :
                        (s \in DOMAIN m_values' /\ s \notin SrcLive(src))
                        => m_values'[s] = Uninit ]_vars

\* C18: free() destroys every live value, so none is still constructed when the
\* value buffer is released, releases the three buffers and leaves size() 0:
\* the container is as the constructor leaves it, and a resize or
\* resizeFromCapacities that follows acts as on a new container.
C18_FreeLifecycle ==
    [][ Free
        => /\ ~fatal'
           /\ lastOp'.op = "free" => lastOp'.i = 0
           /\ m_numArrays' = 0
           /\ m_offsets' = Empty0
           /\ m_sizes' = Empty0
           /\ m_values' = Empty0 ]_vars

\* C20: whatever the interleaving of the emplaceBackAtomic calls on sub-array
\* i, a call that was given a position at or beyond capacityOfArray( i ) ends
\* in the fatal error without constructing a value, no call given such a
\* position returns, and no slot outside the capacity of sub-array i ever holds
\* a value, also when more threads append than the sub-array has room for.
C20_AtomicOverflow ==
    /\ [](\A i \in 0..(m_numArrays - 1) :
            (\A t \in ThreadIds : threads[t].i = i)
            => /\ \A s \in DOMAIN m_values :
                      (s < m_offsets[i] \/ s >= m_offsets[i + 1]) => m_values[s] = Uninit
               /\ \A t \in ThreadIds :
                      threads[t].pc = "done" => threads[t].previousSize < capacityOfArray(i))
    /\ [][ \A t \in ThreadIds :
             (AtomicConstruct(t) /\ threads[t].previousSize >= capacityOfArray(threads[t].i))
             => (fatal' /\ m_values' = m_values) ]_vars

\* C20's case: more threads than sub-array i has room for have appended to it,
\* one constructed its value, and the call that found the sub-array full, with
\* another sub-array behind it, ended in the fatal error.
C20_Witness ==
    /\ threads # <<>>
    /\ fatal
    /\ lastOp.op = "emplaceBackAtomic"
    /\ CheckBounds(lastOp.i)
    /\ lastOp.i + 1 < m_numArrays
    /\ capacityOfArray(lastOp.i + 1) >= 1
    /\ capacityOfArray(lastOp.i) >= 1
    /\ lastOp.k >= capacityOfArray(lastOp.i)
    /\ sizeOfArray(lastOp.i) > capacityOfArray(lastOp.i)
    /\ \E t \in ThreadIds : threads[t].pc = "done"

\* C21: appendToArray( i, first, last ) and insertIntoArray( i, j, first, last )
\* with more values than sub-array i has room for end in the fatal error, and
\* no call of either changes an offset or the capacity of the value buffer.
C21_RangeOverflowIsFatal ==
    [][ /\ \A i \in 0..MaxArrays, vs \in Batches :
             AppendToArray(i, vs)
             => /\ m_offsets' = m_offsets
                /\ m_numArrays' = m_numArrays
                /\ Cap(m_values') = Cap(m_values)
                /\ (CheckBounds(i) /\ sizeOfArray(i) + Len(vs) > capacityOfArray(i))
                   => (fatal' /\ m_sizes' = m_sizes)
        /\ \A i \in 0..MaxArrays, j \in 0..MaxOffset, vs \in Batches :
             InsertIntoArray(i, j, vs)
             => /\ m_offsets' = m_offsets
                /\ m_numArrays' = m_numArrays
                /\ Cap(m_values') = Cap(m_values)
                /\ (CheckInsertBounds2(i, j) /\ sizeOfArray(i) + Len(vs) > capacityOfArray(i))
                   => (fatal' /\ m_sizes' = m_sizes /\ m_values' = m_values) ]_vars

\* C21's case: appendToArray was given more values than the room left in a
\* sub-array that holds a value and has room for another, and ended in the
\* fatal error.
C21_Witness ==
    /\ fatal
    /\ lastOp.op = "appendToArray"
    /\ CheckBounds(lastOp.i)
    /\ sizeOfArray(lastOp.i) >= 1
    /\ sizeOfArray(lastOp.i) < capacityOfArray(lastOp.i)

\* The outcome of the call c made on its own on the sizes and values of st: the
\* outcome of the whole operation, or the fatal error of its checks.
callAlone(st, c) ==
    LET sizeOfI == st.sizes[c.i]
        capacity == m_offsets[c.i + 1] - m_offsets[c.i]
        checks == CASE c.op = "emplaceBack" -> sizeOfI + 1 <= capacity
                    [] c.op = "emplace" -> c.j <= sizeOfI /\ sizeOfI + 1 <= capacity
                    [] c.op = "eraseFromArray" -> c.j < sizeOfI
    IN  IF st.fatal \/ ~checks THEN [st EXCEPT !.fatal = TRUE]
        ELSE [sizes |-> [st.sizes EXCEPT ![c.i] = @ + sizeChange(c)],
              values |-> nonAtomicValues(st.values, c, m_offsets[c.i], sizeOfI),
              fatal |-> FALSE]

\* The outcome of the calls of the threads order[k..], one after another.
RECURSIVE callsOneAfterAnother(_, _, _)
callsOneAfterAnother(st, order, k) ==
    IF k > Len(order) THEN st
    ELSE callsOneAfterAnother(callAlone(st, threads[order[k]]), order, k + 1)

\* The orders the threads can be run in.
Orders == {o \in [1..NumThreads -> ThreadIds] : \A a, b \in 1..NumThreads : a # b => o[a] # o[b]}

\* Every thread has returned from its non-atomic operation.
AllReturned == \A t \in ThreadIds : threads[t].pc = "done"

\* No two threads were given the same sub-array.
DistinctArrays == \A t, u \in ThreadIds : t # u => threads[t].i # threads[u].i

C23_FindLowerBound ==
    /\ [](sa.pc = "done"
          => /\ sa.ret \in 0..sa.size
             /\ \A m \in 0..(sa.size - 1) : comp(sa.ptr[m], sa.value) <=> m < sa.ret
             /\ \A k \in 0..sa.size :
                    (\A m \in 0..(sa.size - 1) : comp(sa.ptr[m], sa.value) <=> m < k)
                    => k = sa.ret
             /\ sa.ret = find(sa.ptr, sa.size, sa.value)
             /\ sa.n <= sa.size)
    /\ [][ FindIteration
           => /\ (sa.lower + sa.upper) \div 2 \in 0..(sa.size - 1)
              /\ 0 <= sa'.lower /\ sa'.lower <= sa'.upper /\ sa'.upper <= sa.size
              /\ sa'.upper - sa'.lower < sa.upper - sa.lower ]_vars

\* C23's case: find has returned an index inside an array that holds the value
\* more than once, after more than one iteration.
C23_Witness ==
    /\ sa.op = "find"
    /\ sa.pc = "done"
    /\ sa.n >= 2
    /\ 0 < sa.ret
    /\ sa.ret + 1 < sa.size
    /\ sa.ptr[sa.ret] = sa.value
    /\ sa.ptr[sa.ret + 1] = sa.value

\* C24: while the program runs, after any sequence of calls, the offsets of a
\* container whose offsets are allocated start at 0 and never decrease:
\* m_offsets[0] = 0 and m_offsets[k] <= m_offsets[k + 1] for every k below
\* size().
C24_OffsetsNonDecreasing ==
    ~fatal =>
        /\ m_numArrays > 0 => DOMAIN m_offsets = 0..m_numArrays
        /\ 0 \in DOMAIN m_offsets => m_offsets[0] = 0
        /\ \A k \in 0..(size - 1) : m_offsets[k] <= m_offsets[k + 1]

\* C24's case: setEqualTo has replaced a populated container by one whose first
\* sub-array has no capacity and whose second has some.
C24_Witness ==
    /\ ~fatal
    /\ lastOp.op = "setEqualTo"
    /\ lastOp.k >= 1
    /\ m_numArrays >= 2
    /\ m_offsets[0] = m_offsets[1]
    /\ m_offsets[1] < m_offsets[2]

\* C25: move( space, touch ) moves m_values and m_sizes to space with the
\* caller's touch flag and then m_offsets; m_offsets is moved to the GPU of a
\* CUDA build without being touched, whatever flag the caller gave, and to any
\* other space with the caller's flag; no offset, size or value changes.
C25_Move ==
    [][ \A space \in MemorySpaces, touch \in BOOLEAN :
          Move(space, touch)
          => /\ spaces'.m_values = [space |-> space,
                                    touched |-> IF touch THEN space ELSE spaces.m_values.touched]
             /\ spaces'.m_sizes = [space |-> space,
                                   touched |-> IF touch THEN space ELSE spaces.m_sizes.touched]
             /\ spaces'.m_offsets.space = space
             /\ spaces'.m_offsets.touched =
                    IF space = "GPU" THEN spaces.m_offsets.touched
                    ELSE IF touch THEN space ELSE spaces.m_offsets.touched
             /\ [k \in 1..3 |-> spaces'.log[k].buffer] = <<"m_values", "m_sizes", "m_offsets">>
             /\ \A k \in 1..3 : spaces'.log[k].space = space
             /\ spaces'.log[1].touch = touch /\ spaces'.log[2].touch = touch
             /\ spaces'.log[3].touch = (touch /\ space # "GPU")
             /\ m_numArrays' = m_numArrays
             /\ m_offsets' = m_offsets
             /\ m_sizes' = m_sizes
             /\ m_values' = m_values ]_vars

\* C25's case: a populated container of a CUDA build was moved to the GPU with
\* touch: its values are touched there, its offsets are there and were last
\* touched on the host.
C25_Witness ==
    /\ spaces.USE_CUDA
    /\ spaces.log # <<>>
    /\ spaces.log[1].touch
    /\ spaces.m_offsets = [space |-> "GPU", touched |-> "CPU"]
    /\ spaces.m_values = [space |-> "GPU", touched |-> "GPU"]
    /\ \E i \in 0..(m_numArrays - 1) : sizeOfArray(i) > 0

\* C26: integer_conversion< RTYPE >( input ) is fatal exactly when input is not
\* a value of RTYPE, and otherwise returns input: never a wrapped or truncated
\* value, for an unsigned input and a signed RTYPE, a signed input and an
\* unsigned RTYPE, and both of the same signedness.
C26_IntegerConversion ==
    lastOp.op = "integer_conversion"
    => /\ fatal <=> lastOp.i \notin ValuesOf(lastOp.RTYPE)
       /\ ~fatal => lastOp.k = lastOp.i
       /\ fatal <=> \/ lastOp.i > numericMax(lastOp.RTYPE)
                    \/ lastOp.i < numericLowest(lastOp.RTYPE)

\* C26's case: a negative value of a signed type was handed to the conversion
\* to a wider unsigned type, where the cast to the unsigned type of the input
\* gives a value of RTYPE; the call was fatal.
C26_Witness ==
    /\ lastOp.op = "integer_conversion"
    /\ fatal
    /\ lastOp.T.signed
    /\ ~lastOp.RTYPE.signed
    /\ lastOp.RTYPE.bits > lastOp.T.bits
    /\ lastOp.i < 0

\* The count a call of insert or insertSorted returns: insert returns whether
\* the value was inserted.
returnedCount ==
    IF sa.op = "insert" THEN (IF sa.ret THEN 1 ELSE 0) ELSE sa.ret

\* C27: every call of the single-value insert and of insertSorted calls
\* callBacks.incrementSize exactly once, on every path, with the count the call
\* returns; that call comes before every call of set and insert on the
\* callbacks, and the values are written in the array incrementSize returned:
\* the array after the call has the room of that array, and is that array when
\* the count is zero.
C27_IncrementSizeOnceAndFirst ==
    sa.op \in {"insert", "insertSorted"}
    => LET returned == incrementSize(ToBuf(sa.before), Len(sa.before), returnedCount) IN
       /\ Len(sa.log) >= 1
       /\ sa.log[1] = CB("incrementSize", <<returnedCount>>)
       /\ \A k \in 2..Len(sa.log) : sa.log[k].cb \in {"set", "insert"}
       /\ Len(sa.log) = 1 <=> returnedCount = 0
       /\ DOMAIN sa.ptr = DOMAIN returned
       /\ returnedCount = 0 => sa.ptr = returned
       /\ sa.size = Len(sa.before) + returnedCount

\* C27's case: insertSorted put two values in an array that held some, one of
\* the values it was given being there already.
C27_Witness ==
    /\ sa.op = "insertSorted"
    /\ Len(sa.before) > 0
    /\ sa.ret = 2
    /\ Len(sa.values) = 3
    /\ Len(sa.log) = 3
    /\ sa.log[2].cb = "insert"

\* The calls of the four-argument insert in the log of the last call, in order.
insertCalls == SelectSeq(sa.log, LAMBDA c : c.cb = "insert" /\ Len(c.args) = 4)

\* C28: in insertSorted the first argument of each call of
\* callBacks.insert( nLeftToInsert, valuePos, pos, prevPos ) is the number of
\* insertions that occur after this one: it goes down by one from call to call
\* and the call for the last insertion receives 0.
C28_LeftToInsert ==
    sa.op = "insertSorted"
    => \A k \in 1..Len(insertCalls) : insertCalls[k].args[1] = Len(insertCalls) - k

\* The calls of set in the log of the last call, in order.
setCalls == SelectSeq(sa.log, LAMBDA c : c.cb = "set")

\* The value of the batch the k-th call of the four-argument insert names.
insertedValue(k) == sa.values[insertCalls[k].args[2] + 1]

\* C29: insertSorted on an array holding values calls callBacks.insert once per
\* value inserted, the largest value first; pos is the index at which the
\* value goes in the array as it was before the call and never grows from one
\* call to the next, prevPos is the pos of the call before, the size of the
\* array for the first call, and values[valuePos] is the value inserted. On an
\* empty array only callBacks.set( k, valuePos ) is called, for k = 0, 1, ...
\* in that order.
C29_InsertCallbacks ==
    sa.op = "insertSorted"
    => IF Len(sa.before) > 0
       THEN LET m == Len(insertCalls) IN
            /\ setCalls = <<>>
            /\ m = sa.ret
            /\ {insertedValue(k) : k \in 1..m} = Range(sa.values) \ Range(sa.before)
            /\ \A k \in 1..(m - 1) : insertedValue(k) > insertedValue(k + 1)
            /\ \A k \in 1..m :
                   insertCalls[k].args[3]
                       = Cardinality({x \in Range(sa.before) : x < insertedValue(k)})
            /\ \A k \in 1..(m - 1) : insertCalls[k + 1].args[3] <= insertCalls[k].args[3]
            /\ \A k \in 1..m :
                   insertCalls[k].args[4]
                       = IF k = 1 THEN Len(sa.before) ELSE insertCalls[k - 1].args[3]
       ELSE /\ insertCalls = <<>>
            /\ Len(setCalls) = sa.ret
            /\ \A k \in 1..Len(setCalls) :
                   /\ setCalls[k].args[1] = k - 1
                   /\ sa.values[setCalls[k].args[2] + 1] = sa.ptr[k - 1]
            /\ \A k \in 1..(Len(setCalls) - 1) :
                   setCalls[k].args[2] < setCalls[k + 1].args[2]

\* C29's case: insertSorted put values at two different places of an array that
\* held some, the batch holding a value twice.
C29_Witness ==
    /\ sa.op = "insertSorted"
    /\ Len(sa.before) > 0
    /\ Len(insertCalls) >= 2
    /\ insertCalls[2].args[3] < insertCalls[1].args[3]
    /\ insertCalls[1].args[3] < Len(sa.before)
    /\ Len(sa.values) > Cardinality(Range(sa.values))

\* The calls of the three-argument remove in the log of the last call, in order.
removeCalls == SelectSeq(sa.log, LAMBDA c : c.cb = "remove" /\ Len(c.args) = 3)

\* C30: removeSorted calls callBacks.remove( nRemoved, curPos, nextPos ) once
\* per entry removed, with nRemoved = 1, 2, ... up to the count returned;
\* curPos is the index, in the array as it was before the call, of the entry
\* removed, and grows from call to call; nextPos is the curPos of the call that
\* follows, the size of the array before the call for the last one; nothing is
\* called when nothing is removed.
C30_RemoveCallbacks ==
    sa.op = "removeSorted"
    => LET m == Len(removeCalls)
           kept == {sa.ptr[k] : k \in 0..(sa.size - sa.ret - 1)}
       IN  /\ sa.log = removeCalls
           /\ m = sa.ret
           /\ sa.ret = 0 => sa.log = <<>>
           /\ \A k \in 1..m :
                  /\ removeCalls[k].args[1] = k
                  /\ removeCalls[k].args[2] \in 0..(Len(sa.before) - 1)
                  /\ removeCalls[k].args[3]
                         = IF k = m THEN Len(sa.before) ELSE removeCalls[k + 1].args[2]
           /\ \A k \in 1..(m - 1) : removeCalls[k].args[2] < removeCalls[k + 1].args[2]
           /\ {sa.before[removeCalls[k].args[2] + 1] : k \in 1..m} = Range(sa.before) \ kept
           /\ Cardinality(Range(sa.before) \ kept) = m

\* C30's case: removeSorted took two entries that were not neighbours out of an
\* array, the second not the last of the array, from a batch that also held a
\* value the array lacked.
C30_Witness ==
    /\ sa.op = "removeSorted"
    /\ sa.ret = 2
    /\ Len(removeCalls) = 2
    /\ removeCalls[2].args[2] > removeCalls[1].args[2] + 1
    /\ removeCalls[2].args[3] > removeCalls[2].args[2] + 1
    /\ Range(sa.values) \ Range(sa.before) # {}

\* The batch of the last call holds a value larger than every entry the array
\* held.
BatchBeyondArray ==
    /\ Len(sa.before) > 0
    /\ \E v \in Range(sa.values) : \A x \in Range(sa.before) : x < v

\* C31 as stated: removeSorted returns 0 and removes nothing whenever the batch
\* holds a value larger than every entry of the array, also when a smaller
\* value of the batch is in the array.
C31_LargerValueStopsBatch ==
    (sa.op = "removeSorted" /\ BatchBeyondArray)
    => /\ sa.ret = 0
       /\ Run(sa.ptr, 0, sa.size) = sa.before

\* C31, amended: the return of 0 on a value larger than every entry is taken
\* only when no value of the batch before it was found; the batch being
\* sorted, no value of the batch is then in the array. A batch holding a value
\* larger than every entry still has each of its values that are in the array
\* removed, and the count of them returned.
C31_LargerValueKeepsEarlierRemovals ==
    (sa.op = "removeSorted" /\ BatchBeyondArray)
    => /\ sa.ret = 0 <=> Range(sa.values) \cap Range(sa.before) = {}
       /\ sa.ret = Cardinality(Range(sa.values) \cap Range(sa.before))
       /\ \A v \in Range(sa.values) \cap Range(sa.before) :
              v \notin Range(Run(sa.ptr, 0, sa.size - sa.ret))
       /\ sa.ret = 0 => Run(sa.ptr, 0, sa.size) = sa.before

\* C31's case: a batch of a value of the array and a value larger than every
\* entry of the array; the first was removed.
C31_Witness ==
    /\ sa.op = "removeSorted"
    /\ BatchBeyondArray
    /\ Len(sa.values) = 2
    /\ sa.values[1] \in Range(sa.before)
    /\ sa.ret = 1
    /\ sa.log = <<CB("remove", <<1, sa.log[1].args[2], Len(sa.before)>>)>>

\* What a run of insertSorted reports to the four-argument insert, in order:
\* nLeftToInsert, pos, prevPos and the value inserted.
insertReports(log, values) ==
    LET calls == SelectSeq(log, LAMBDA c : c.cb = "insert" /\ Len(c.args) = 4) IN
    [k \in 1..Len(calls) |->
        <<calls[k].args[1], calls[k].args[3], calls[k].args[4], values[calls[k].args[2] + 1]>>]

\* C32: the positions insertSorted keeps are only an optimisation. Whenever
\* more values are inserted than positions are kept, the count returned, the
\* array left and what is reported to callBacks.insert (nLeftToInsert, pos,
\* prevPos, the value inserted) are those of the run that keeps every
\* position, also for batches holding a value twice or a value of the array.
C32_CacheIsOptimisation ==
    [][sa'.op = "insertSorted"
       => LET values == sa'.values
              reference == insertSorted(sa.ptr, sa.size, ToBuf(values), Len(values),
                                        MAX_PRE_CALCULATED)
          IN  (InsertSortedSmallCache(values) /\ reference.ret > CacheBound)
              => /\ sa'.ret = reference.ret
                 /\ sa'.size = reference.size
                 /\ sa'.ptr = reference.ptr
                 /\ insertReports(sa'.log, values) = insertReports(reference.log, values)
                 /\ Len(sa'.log) = Len(reference.log)]_vars

\* C32's case: two values were inserted, the second of them found again after
\* the positions kept ran out: it is in the batch twice, reported at its last
\* place in the batch, and the batch also holds a value of the array between
\* the two.
C32_Witness ==
    /\ sa.op = "insertSorted"
    /\ Len(sa.before) > 0
    /\ sa.ret = 2
    /\ sa.ret > CacheBound
    /\ Len(insertCalls) = 2
    /\ insertCalls[2].args[2] >= 1
    /\ sa.values[insertCalls[2].args[2]] = sa.values[insertCalls[2].args[2] + 1]
    /\ \E k \in 1..Len(sa.values) :
           /\ sa.values[k] \in Range(sa.before)
           /\ insertedValue(2) < sa.values[k]
           /\ sa.values[k] < insertedValue(1)

\* The number of times v is among the cells of buf.
Occurrences(buf, v) == Cardinality({k \in DOMAIN buf : buf[k] = v})

\* buf holds the values of input, each as many times, in an order in which no
\* value comes before one it should follow under c.
SortedPermutation(c, input, buf) ==
    /\ DOMAIN buf = DOMAIN input
    /\ \A v \in 1..(MaxSortInputVal + 1) : Occurrences(buf, v) = Occurrences(input, v)
    /\ \A k \in DOMAIN buf : k > 0 => ~compare(c, buf[k], buf[k - 1])

\* C34: makeSorted( first, last, comp ) does what std::sort does: for a range
\* shorter than, as long as and longer than the threshold of introsortLoop,
\* the call returns and the range is then a permutation of what it was, sorted
\* under comp.
C34_MakeSorted ==
    /\ [](sa.pc = "done" => SortedPermutation(sa.comp, sa.input, sa.buf))
    /\ (sa.pc = "call") ~> (sa.pc = "done")

\* C34's case: a range longer than the threshold, not sorted and holding a
\* value twice, was given with greater< T > and the call has returned.
C34_Witness ==
    /\ sa.op = "makeSorted"
    /\ sa.pc = "done"
    /\ sa.comp = "greater"
    /\ Cap(sa.input) > INTROSORT_THRESHOLD + 1
    /\ sa.input # sa.buf
    /\ \E k \in DOMAIN sa.input : k > 0 /\ sa.input[k] = sa.input[k - 1]
    /\ \E k \in DOMAIN sa.input : k > 0 /\ sa.input[k] > sa.input[k - 1]

\* The values of the batch in increasing order, each as often as in the batch.
sortedBatch(values) ==
    [k \in 1..Len(values) |->
        CHOOSE v \in Range(values) :
            /\ Cardinality({j \in 1..Len(values) : values[j] < v}) < k
            /\ k <= Cardinality({j \in 1..Len(values) : values[j] <= v})]

\* The batches that hold the values of the batch in some order.
Reorderings(values) ==
    {[k \in 1..Len(values) |-> values[f[k]]] : f \in Permutations(1..Len(values))}

\* The batched routine of the last call, on the array it was given, with the
\* batch values and a localBuffer of N cells.
batchedCall(values, N) ==
    IF sa.op = "insert"
    THEN insertValues(ToBuf(sa.before), Len(sa.before), ToBuf(values), Len(values), N)
    ELSE removeValues(ToBuf(sa.before), Len(sa.before), ToBuf(values), Len(values), N)

\* What the batched routine of the last call does on a sorted batch.
sortedCall(values) ==
    IF sa.op = "insert"
    THEN insertSorted(ToBuf(sa.before), Len(sa.before), ToBuf(values), Len(values),
                      MAX_PRE_CALCULATED)
    ELSE removeSorted(ToBuf(sa.before), Len(sa.before), ToBuf(values), Len(values))

\* C33: the batched insert and remove take the values in any order: the count
\* returned and the array left are those of insertSorted or removeSorted on
\* the sorted batch, and so the same for every order of the batch; the
\* caller's values are as they were; and nothing depends on whether the copy
\* was in localBuffer or in a block from malloc, which is freed exactly once.
C33_BatchInAnyOrder ==
    sa.op \in {"insert", "remove"}
    => LET reference == sortedCall(sortedBatch(sa.values)) IN
       /\ sa.ret = reference.ret
       /\ sa.size = reference.size
       /\ sa.ptr = reference.ptr
       /\ \A other \in Reorderings(sa.values) :
              LET r == batchedCall(other, sa.N) IN
              /\ r.ret = sa.ret
              /\ r.ptr = sa.ptr
              /\ r.size = sa.size
       /\ sa.mem.values = ToBuf(sa.values)
       /\ sa.buffer = (IF Len(sa.values) <= sa.N THEN "localBuffer" ELSE "heap")
       /\ sa.mem.mallocs = (IF sa.buffer = "heap" THEN 1 ELSE 0)
       /\ sa.mem.frees = sa.mem.mallocs
       /\ sa.mem.heap = Empty0
       /\ LET local == batchedCall(sa.values, LOCAL_SIZE) IN
          /\ local.buffer = "localBuffer"
          /\ local.ret = sa.ret
          /\ local.ptr = sa.ptr
          /\ local.size = sa.size

\* C33's case: a batch longer than localBuffer and not in order, holding a
\* value of the array and values the array lacked, was inserted from a block
\* that malloc gave.
C33_Witness ==
    /\ sa.op = "insert"
    /\ Len(sa.values) > sa.N
    /\ sa.buffer = "heap"
    /\ sa.mem.mallocs = 1
    /\ sa.mem.frees = 1
    /\ sa.values[1] > sa.values[2]
    /\ sa.values[2] < sa.values[3]
    /\ Range(sa.values) \cap Range(sa.before) # {}
    /\ sa.ret = 2
    /\ Len(sa.before) > 0

\* What emplace and insertIntoArray promise for the values vs put at position j
\* of sub-array i: vs stands at [j, j + n) in its order, the former values from
\* j on follow it in their order, those before j stay, the size grows by n, and
\* the offsets and every slot outside the sub-array's new values are as before.
InsertedAt(i, j, vs) ==
    LET n == Len(vs) IN
    /\ ~fatal'
    /\ m_sizes'[i] = m_sizes[i] + n
    /\ ArrayOf(i)' = SubSeq(ArrayOf(i), 1, j) \o vs \o SubSeq(ArrayOf(i), j + 1, m_sizes[i])
    /\ m_numArrays' = m_numArrays
    /\ m_offsets' = m_offsets
    /\ \A k \in 0..(m_numArrays - 1) :
           k # i => m_sizes'[k] = m_sizes[k] /\ ArrayOf(k)' = ArrayOf(k)
    /\ \A c \in DOMAIN m_values :
           (c < m_offsets[i] + j \/ c >= m_offsets[i] + m_sizes[i] + n)
           => m_values'[c] = m_values[c]
    /\ j = m_sizes[i] => m_values' = amAppend(m_values, m_offsets[i], m_sizes[i], vs)

\* C35: emplace( i, j, v ) and insertIntoArray( i, j, first, last ) with
\* 0 <= j <= sizeOfArray( i ) and room for the values put them at the positions
\* [j, j + n) of sub-array i in the order given, move the former values of
\* [j, size) up by n in their order, make the size n larger and leave every
\* offset and every other sub-array alone; with j = sizeOfArray( i ) they append.
C35_InsertEffect ==
    [][ /\ \A i \in 0..MaxArrays, j \in 0..MaxOffset, vs \in Batches :
              (InsertIntoArray(i, j, vs) /\ CheckInsertBounds2(i, j) /\ CapacityCheck(i, Len(vs)))
              => InsertedAt(i, j, vs)
        /\ \A i \in 0..MaxArrays, j \in 0..MaxOffset, v \in Vals :
              (Emplace(i, j, v) /\ CheckInsertBounds2(i, j) /\ CapacityCheck(i, 1))
              => InsertedAt(i, j, <<v>>) ]_vars

\* C35's case: insertIntoArray put a value in a sub-array that held one,
\* different from it, in a container of two sub-arrays.
C35_Witness ==
    /\ ~fatal
    /\ lastOp.op = "insertIntoArray"
    /\ lastOp.k = 1
    /\ m_numArrays >= 2
    /\ sizeOfArray(lastOp.i) = 2
    /\ ArrayOf(lastOp.i)[1] # ArrayOf(lastOp.i)[2]

\* C36: with the bounds checks compiled in, sizeOfArray( i ), capacityOfArray( i )
\* and operator[]( i ) are fatal exactly when i is not in [0, size()), and
\* operator()( i, j ) exactly when, besides, j is not in [0, sizeOfArray( i )):
\* the bound on j is the size of sub-array i, not its capacity, so a slot that
\* is reserved and holds no value is never returned.
C36_AccessorBounds ==
    /\ lastOp.op \in {"sizeOfArray", "capacityOfArray", "operator[]"}
       => (fatal <=> lastOp.i \notin 0..(m_numArrays - 1))
    /\ lastOp.op = "operator()"
       => /\ fatal <=> \/ lastOp.i \notin 0..(m_numArrays - 1)
                       \/ lastOp.j \notin 0..(m_sizes[lastOp.i] - 1)
          /\ ~fatal => /\ lastOp.k # Uninit
                       /\ lastOp.k = ArrayOf(lastOp.i)[lastOp.j + 1]
    /\ (lastOp.op = "sizeOfArray" /\ ~fatal) => lastOp.k = m_sizes[lastOp.i]
    /\ (lastOp.op = "capacityOfArray" /\ ~fatal)
       => lastOp.k = m_offsets[lastOp.i + 1] - m_offsets[lastOp.i]

\* C36's case: operator() was called on a slot within the capacity of a
\* sub-array that holds a value, past its size, and was fatal.
C36_Witness ==
    /\ lastOp.op = "operator()"
    /\ fatal
    /\ lastOp.i \in 0..(m_numArrays - 1)
    /\ m_sizes[lastOp.i] > 0
    /\ lastOp.j >= m_sizes[lastOp.i]
    /\ lastOp.j < m_offsets[lastOp.i + 1] - m_offsets[lastOp.i]

\* The position p of sub-array i holds a constructed value.
ConstructedAt(i, p) ==
    /\ m_offsets[i] + p \in DOMAIN m_values
    /\ m_values[m_offsets[i] + p] # Uninit

OutsideCapacityRegion(i) ==
    {k \in DOMAIN m_values : k < m_offsets[i] \/ m_offsets[i] + capacityOfArray(i) <= k}

\* C38: when appendToArray( i, first, last ) fails its capacity check, no slot
\* outside the capacity region of sub-array i has been modified: the values of
\* the following sub-arrays are what they were before the call.
C38_NoWriteBeforeCapacityCheck ==
    [][\A i \in 0..MaxArrays, vs \in Batches :
          (AppendToArray(i, vs) /\ CheckBounds(i) /\ ~CapacityCheck(i, Len(vs)))
          => /\ fatal'
             /\ \A k \in OutsideCapacityRegion(i) : m_values'[k] = m_values[k]]_vars

\* C39: with bounds checking, eraseFromArray( i, j, n ) is fatal whenever
\* n < 0 or j + n > sizeOfArray( i ), and a call that returns leaves
\* sizeOfArray( i ) neither negative nor larger than before.
C39_EraseCountChecked ==
    [][\A i \in AccessArrays, j \in AccessPositions, n \in EraseCounts :
          (EraseFromArrayAnyCount(i, j, n) /\ CheckBounds2(i, j))
          => /\ (n < 0 \/ j + n > sizeOfArray(i)) => fatal'
             /\ ~fatal' => (0 <= m_sizes'[i] /\ m_sizes'[i] <= m_sizes[i])]_vars

\* The size sub-array i had before the calls of the threads.
sizeBeforeCalls(i) == IF InAtomic THEN 0 ELSE threads[1].sizes0[i]

\* Every thread appends to sub-array i, which has room for all the values.
SharedArray(i) ==
    /\ \A t \in ThreadIds : threads[t].i = i
    /\ capacityOfArray(i) >= sizeBeforeCalls(i) + NumThreads

\* The values of sub-array i from the position `from` on.
AppendedTo(i, from) ==
    [k \in 1..(sizeOfArray(i) - from) |-> m_values[m_offsets[i] + from + k - 1]]

\* Every call has returned, sub-array i has grown by less than the number of
\* calls and a value of some thread is not among the values appended.
LostUpdate(i) ==
    /\ SharedArray(i)
    /\ ~fatal
    /\ AllReturned
    /\ sizeOfArray(i) < sizeBeforeCalls(i) + NumThreads
    /\ \E v \in Vals :
           CountIn(AppendedTo(i, sizeBeforeCalls(i)), v)
               < CountIn([t \in ThreadIds |-> threads[t].v], v)

\* C40: threads that call the non-atomic emplaceBack on the same sub-array can
\* lose an update (the state of C40_Witness); no interleaving of the steps of
\* emplaceBackAtomic calls on the same sub-array does: when all have returned
\* the sub-array has grown by the number of calls and holds every value.
C40_AtomicNeverLosesUpdate ==
    \A i \in 0..(m_numArrays - 1) :
        InAtomic
        => /\ ~LostUpdate(i)
           /\ (SharedArray(i) /\ AllReturned /\ ~fatal)
              => /\ sizeOfArray(i) = sizeBeforeCalls(i) + NumThreads
                 /\ \A v \in Vals :
                        CountIn(AppendedTo(i, 0), v)
                            = CountIn([t \in ThreadIds |-> threads[t].v], v)

\* C40's case: the threads ran the non-atomic emplaceBack on one sub-array
\* with room for all their values, every call returned, and the sub-array has
\* grown by one value less than the number of calls.
C40_Witness ==
    /\ ~InAtomic
    /\ \E i \in 0..(m_numArrays - 1) :
           /\ LostUpdate(i)
           /\ sizeOfArray(i) = sizeBeforeCalls(i) + NumThreads - 1
           /\ \A t \in ThreadIds : threads[t].op = "emplaceBack"
====
